---- MODULE Spec2Model ----
(***************************************************************************)
(* Central system of the Smart Safety Helmet: the buffered MQTT receiver   *)
(* (reciever.py, class MQTTReceiver) and the asynchronous database manager *)
(* (db_manager.py, class DatabaseManager).                                 *)
(*                                                                         *)
(* The specifications of this module share its variables:                  *)
(*   SpecRecv      the ingest buffer, the intake queue, the processor      *)
(*                 thread, start and stop of MQTTReceiver;                 *)
(*   SpecBuf       SpecRecv with one processor thread that is never        *)
(*                 stopped; SpecBufStats adds a get_buffer_stats caller;   *)
(*   SpecBufOps    the operations on the ingest buffer alone: _on_message, *)
(*                 get_buffer_stats, get_recent_messages, clear_buffer;    *)
(*   SpecDispatch  the handler registry and _process_single_message;       *)
(*   SpecDb        DatabaseManager: queue_operation, the batch worker,     *)
(*                 start and stop.  FairSpecDb adds the scheduler's        *)
(*                 fairness to the threads of SpecDb.                      *)
(*   SpecParse     SpecBuf with payloads that are not JSON;                *)
(*   SpecBatch     one _process_batch call after another, statement by     *)
(*                 statement, with the places where it can raise;          *)
(*   SpecDbStats   the engine and a thread calling get_stats;              *)
(*   SpecWait      the engine and a thread calling wait_for_queue_empty    *)
(*                 and wait_for_processing.                                *)
(*   SpecIntegration  the handlers of DatabaseIntegration called for       *)
(*                 messages of every kind, and the operations they queue;  *)
(*   SpecPipeline  SpecIntegration with the batch worker storing them;     *)
(*   SpecLife      start() and stop() of the receiver, again and again;    *)
(*   SpecStop      the receiver and the engine started and stopped;        *)
(*                 FairSpecStop adds the scheduler's fairness.             *)
(*   SpecRaise     a started receiver whose handlers may raise, and        *)
(*                 FairSpecRaise with the scheduler's fairness;            *)
(*   SpecIter      _process_single_message statement by statement while    *)
(*                 another thread registers and unregisters handlers;      *)
(*   SpecOrder     a started receiver and a started engine, not stopped.   *)
(* A specification leaves the variables of the other components unchanged. *)
(***************************************************************************)
EXTENDS Integers, Sequences, FiniteSets, TLC

(***************************************************************************)
(* Bounds of the model and parameters of the constructors.                 *)
(***************************************************************************)
\* MQTTReceiver(buffer_size=...): capacity of message_buffer.
buffer_size == 2
\* Number of messages the broker delivers in one run.
MaxMsgs == 5
\* Number of processor threads that can exist over one run (start after stop).
MaxThreads == 2
\* Number of handler functions the registry holds at one time.
MaxRegs == 3
\* DatabaseManager(max_queue_size=...): capacity of operation_queue.
max_queue_size == 2
\* DatabaseManager(batch_size=...): operations per batch.
batch_size == 3
\* Number of queue_operation calls in one run.
MaxOps == 3
\* Number of batch worker threads that can exist over one run (start after stop).
MaxWorkers == 2
\* Number of operations in a batch given to _process_batch on its own.
MaxBatchOps == 2
\* Number of _process_batch calls made on their own.
MaxCalls == 2
\* Number of messages the handlers of DatabaseIntegration are called for.
MaxHandled == 2
\* Number of messages delivered while the receiver is started and stopped.
MaxLifeMsgs == 2
\* stop() is not called any more once unfinished_tasks has reached this.
MaxUnfinished == 4
\* Number of queue_operation calls while the engine is started and stopped.
MaxStopOps == 1
\* Number of messages delivered to a receiver whose handlers may raise.
MaxRaiseMsgs == 3
\* Number of handler functions registered while a dispatch is followed in steps.
MaxIterRegs == 2
\* Number of messages delivered while the order of processing is followed.
MaxOrderMsgs == 3

VARIABLES
    \* ---- MQTTReceiver ----
    message_buffer,     \* deque(maxlen=buffer_size): sequence of messages, oldest first
    recv_stats,         \* self.stats of MQTTReceiver
    processing_queue,   \* queue.Queue(maxsize=buffer_size*2): messages, or NoneMsg
    unfinished_tasks,   \* processing_queue.unfinished_tasks
    recv_is_running,    \* MQTTReceiver.is_running
    loop_running,       \* the paho network loop delivers messages (loop_start .. loop_stop)
    cb_pc, cb_msg,      \* the network thread inside _on_message
    proc_pc, proc_msg,  \* the processor threads inside _message_processor
    processor_thread,   \* self.processor_thread: the thread stop() joins (0: no attribute)
    ctl_pc,             \* the thread calling start() / stop() on the receiver
    arrived,            \* number of _on_message calls so far
    recorded,           \* history: ids appended to message_buffer since the last clear
    rd_pc, rd_size,     \* a thread inside get_buffer_stats, and its local buffer_size
    snapshot,           \* the last result of get_buffer_stats
    recent,             \* the last result of get_recent_messages (message ids)
    \* ---- the handler registry ----
    message_handlers,   \* self.message_handlers: category -> (pattern -> handler list)
    \* ---- the last operation on the registry: register, unregister or dispatch ----
    last_op,            \* "none", "register", "unregister" or "dispatch"
    disp_topic,         \* topic of the message it dispatched, split at '/'
    disp_raisers,       \* handlers that raise when called for that message
    invoked,            \* handlers it called, in call order
    \* ---- DatabaseManager ----
    db_is_running,      \* DatabaseManager.is_running
    operation_queue,    \* queue.Queue(maxsize=max_queue_size): operations, oldest first
    op_unfinished,      \* operation_queue.unfinished_tasks
    db_stats,           \* self.stats of DatabaseManager
    worker_thread,      \* self.worker_thread: the thread stop() joins (0: None)
    w_pc,               \* the batch worker threads inside _db_worker
    w_batch,            \* batch_operations of each worker
    w_op,               \* operation of each worker (NoOp: None)
    w_old,              \* line 201 held in this round: 5 s since last_batch_time, batch not empty
    dbctl_pc,           \* the thread calling start() / stop() on the manager
    prod_pc, prod_op,   \* the producer thread inside queue_operation
    prod_result,        \* what its last queue_operation call returned
    ops_created,        \* number of queue_operation calls so far
    accepted,           \* history: ids of the operations queue_operation accepted
    store,              \* ids of the operations committed to the database, in order
    buffer_audit,       \* rows of the buffer_audit table
    batches,            \* history: the batches passed to _process_batch
    \* ---- one _process_batch call, statement by statement ----
    tx_pc,              \* position inside _process_batch ("idle": no call)
    tx_ops,             \* operations of the call (the last call when idle)
    tx_kind,            \* the kind being applied: index into KindOrder
    tx_fail,            \* where this call raises: [at, pos]
    tx_audit_ok,        \* whether the failure audit row of lines 285-294 can be written
    tx_pending,         \* rows written through conn and not yet committed
    tables,             \* committed rows (operation ids) of each table
    devices,            \* the devices table: device_id -> row with total_messages
    upserts,            \* history: device of each committed update_device operation
    \* ---- callers of get_stats, wait_for_queue_empty, wait_for_processing ----
    gs_pc,              \* position inside get_stats
    gs_stats,           \* its local stats
    gs_result,          \* what the last get_stats call returned
    wq_result,          \* what the last wait_for_queue_empty call returned
    wq_done,            \* history: all queued operations were done when it was called
    wp_result,          \* what the last wait_for_processing call returned
    wp_done,            \* history: all queued messages were done when it was called
    \* ---- DatabaseIntegration: a handler called by the processor thread ----
    h_pc,               \* "idle", or "call" inside a handler
    h_todo,             \* the queue_operation calls the handler has still to make
    h_msgs,             \* history: the messages handled, and whether the handler raised
    h_log,              \* history: the operations the handlers passed to queue_operation
    \* ---- one _process_single_message call, loop step by loop step ----
    d_pc,               \* "idle", "test" (if key in dict), "list" (dict[key]), "loop", "end"
    d_phase,            \* the key being tried: 1 exact, 2 '*', 3 device wildcard
    d_idx,              \* index of the list iterator of the for loop
    d_live,             \* the list being iterated is still the one in the registry
    d_list,             \* the list being iterated once its key has been deleted
    d_kept,             \* history: <<key, fn>> registered since this call began
    d_seen,             \* history: <<key, fn>> registered at some time during this call
    d_calls             \* history: the handlers this call has invoked

recv_vars == <<message_buffer, recv_stats, processing_queue, unfinished_tasks,
               recv_is_running, loop_running, cb_pc, cb_msg, proc_pc, proc_msg,
               processor_thread, ctl_pc, arrived, recorded, rd_pc, rd_size, snapshot,
               recent>>
disp_vars == <<last_op, disp_topic, disp_raisers, invoked>>

db_vars == <<db_is_running, operation_queue, op_unfinished, db_stats, worker_thread,
             w_pc, w_batch, w_op, w_old, dbctl_pc, prod_pc, prod_op, prod_result,
             ops_created, accepted, store, buffer_audit, batches>>

tx_vars == <<tx_pc, tx_ops, tx_kind, tx_fail, tx_audit_ok, tx_pending, tables,
             devices, upserts>>

iter_vars == <<d_pc, d_phase, d_idx, d_live, d_list, d_kept, d_seen, d_calls>>

call_vars == <<gs_pc, gs_stats, gs_result, wq_result, wq_done, wp_result, wp_done,
               h_pc, h_todo, h_msgs, h_log, iter_vars>>

vars == <<recv_vars, disp_vars, message_handlers, db_vars, tx_vars, call_vars>>

(***************************************************************************)
(* Values.                                                                 *)
(***************************************************************************)
\* The shutdown signal stop() puts into the processing queue (None).
NoneMsg == [id |-> 0, topic |-> <<>>, json |-> FALSE]

Threads == 1..MaxThreads

\* Handler functions that collaborators register.
Handlers == {"h1", "h2", "h3"}

\* message_type values of the registry (reciever.py:60-63).
Categories == {"sensors", "status"}

\* Handler keys used in registrations.
Patterns == {"d1/temp", "*/temp", "*", "d1/*"}

\* msg.topic.split('/') of the topics delivered in SpecDispatch.
Topics ==
    { <<"devices", d, c, "temp">> : d \in {"d1", "d2"}, c \in Categories }
    \cup { <<"devices", "d1", "sensors", "gas">>,
           <<"devices", "d1", "sensors">>,
           <<"helmets", "d1", "sensors", "temp">>,
           <<"devices", "d1", "alerts", "temp">>,
           <<"devices", "d1", "sensors", "temp", "raw">> }

\* Topics delivered in SpecRecv.
RecvTopics == { <<"devices", "d1", "sensors", "temp">>, <<"devices", "d1", "status">> }

Min(a, b) == IF a <= b THEN a ELSE b

(***************************************************************************)
(* _process_single_message (reciever.py:177-213).                          *)
(***************************************************************************)
\* f"{device_id}/{sub_type}"
handler_key(device_id, sub_type) == device_id \o "/" \o sub_type

\* f"{device_id}/*"
device_wildcard(device_id) == device_id \o "/*"

\* The handler list of one key of one category; no list when the key is absent.
bucket(handlers, message_type, key) ==
    IF key \in DOMAIN handlers[message_type]
    THEN handlers[message_type][key]
    ELSE <<>>

\* A routing that does not test the first segment of the topic.
matched_handlers_any_root(handlers, topic_parts) ==
    IF Len(topic_parts) >= 4
    THEN LET device_id == topic_parts[2]
             message_type == topic_parts[3]
             sub_type == topic_parts[4]
         IN  IF message_type \in DOMAIN handlers
             THEN bucket(handlers, message_type, handler_key(device_id, sub_type))
                  \o bucket(handlers, message_type, "*")
                  \o bucket(handlers, message_type, device_wildcard(device_id))
             ELSE <<>>
    ELSE <<>>

\* A routing that looks the keys up in every category's dict.
matched_handlers_every_category(handlers, topic_parts) ==
    IF Len(topic_parts) >= 4 /\ topic_parts[1] = "devices"
    THEN LET device_id == topic_parts[2]
             message_type == topic_parts[3]
             sub_type == topic_parts[4]
             other == IF message_type = "sensors" THEN "status" ELSE "sensors"
         IN  IF message_type \in DOMAIN handlers
             THEN bucket(handlers, message_type, handler_key(device_id, sub_type))
                  \o bucket(handlers, message_type, "*")
                  \o bucket(handlers, message_type, device_wildcard(device_id))
                  \o bucket(handlers, other, handler_key(device_id, sub_type))
                  \o bucket(handlers, other, "*")
                  \o bucket(handlers, other, device_wildcard(device_id))
             ELSE <<>>
    ELSE <<>>

\* A routing that tries the device wildcard before the catch-all.
matched_handlers_wildcard_first(handlers, topic_parts) ==
    IF Len(topic_parts) >= 4 /\ topic_parts[1] = "devices"
    THEN LET device_id == topic_parts[2]
             message_type == topic_parts[3]
             sub_type == topic_parts[4]
         IN  IF message_type \in DOMAIN handlers
             THEN bucket(handlers, message_type, handler_key(device_id, sub_type))
                  \o bucket(handlers, message_type, device_wildcard(device_id))
                  \o bucket(handlers, message_type, "*")
             ELSE <<>>
    ELSE <<>>

\* The handlers the three loops of _process_single_message call when none raises:
\* exact key, then '*', then 'device/*'.
matched_handlers(handlers, topic_parts) ==
    IF Len(topic_parts) >= 4 /\ topic_parts[1] = "devices"
    THEN LET device_id == topic_parts[2]
             message_type == topic_parts[3]
             sub_type == topic_parts[4]
         IN  IF message_type \in DOMAIN handlers
             THEN bucket(handlers, message_type, handler_key(device_id, sub_type))
                  \o bucket(handlers, message_type, "*")
                  \o bucket(handlers, message_type, device_wildcard(device_id))
             ELSE <<>>
    ELSE <<>>

\* Position of the first call that raises (0: none does).
first_raise(calls, raisers) ==
    LET S == {i \in 1..Len(calls) : calls[i] \in raisers}
    IN  IF S = {} THEN 0 ELSE CHOOSE i \in S : \A j \in S : i <= j

\* The handlers actually called: the single try/except around the three loops
\* ends the routing at the first handler that raises.
process_single_message(handlers, topic_parts, raisers) ==
    LET calls == matched_handlers(handlers, topic_parts)
        k == first_raise(calls, raisers)
    IN  IF k = 0 THEN calls ELSE SubSeq(calls, 1, k)

(***************************************************************************)
(* register_handler / unregister_handler (reciever.py:215-264).            *)
(***************************************************************************)
\* dict with key k set to v.
dict_set(d, k, v) == [x \in DOMAIN d \cup {k} |-> IF x = k THEN v ELSE d[x]]

\* dict with key k deleted.
dict_del(d, k) == [x \in DOMAIN d \ {k} |-> d[x]]

\* list.remove(x): the list without the first occurrence of x.
list_remove(l, x) ==
    LET S == {i \in 1..Len(l) : l[i] = x}
    IN  IF S = {} THEN l
        ELSE LET k == CHOOSE i \in S : \A j \in S : i <= j
             IN  SubSeq(l, 1, k - 1) \o SubSeq(l, k + 1, Len(l))

register_handler(handlers, message_type, key, fn) ==
    IF message_type \notin DOMAIN handlers
    THEN handlers
    ELSE [handlers EXCEPT ![message_type] =
            dict_set(@, key, Append(bucket(handlers, message_type, key), fn))]

\* fn = "" stands for handler_function=None.
unregister_handler(handlers, message_type, key, fn) ==
    IF message_type \in DOMAIN handlers /\ key \in DOMAIN handlers[message_type]
    THEN IF fn = ""
         THEN [handlers EXCEPT ![message_type] = dict_del(@, key)]
         ELSE LET rest == list_remove(handlers[message_type][key], fn)
              IN  IF rest = <<>>
                  THEN [handlers EXCEPT ![message_type] = dict_del(@, key)]
                  ELSE [handlers EXCEPT ![message_type] = dict_set(@, key, rest)]
    ELSE handlers

\* The registry after __init__: {'sensors': {}, 'status': {}}.
EmptyRegistry == [c \in Categories |-> [k \in {} |-> <<>>]]

(***************************************************************************)
(* SpecDispatch: registrations and dispatches of single messages.          *)
(***************************************************************************)
\* queue_operation's operation argument None of the worker (operation = None).
NoOp == [id |-> 0, type |-> "none"]

Workers == 1..MaxWorkers

\* The operation types _process_batch handles, in the order of lines 240-259.
KindOrder == <<"update_device", "insert_sensor_data", "emergency_event", "system_alert">>

Kinds == {KindOrder[i] : i \in 1..Len(KindOrder)}

\* A _process_batch call in which nothing raises.
NoFail == [at |-> "none", pos |-> 0]

\* No _process_batch call yet; the tables _init_database created are empty.
TxIdle ==
    /\ tx_pc = "idle"
    /\ tx_ops = <<>>
    /\ tx_kind = 1
    /\ tx_fail = NoFail
    /\ tx_audit_ok = TRUE
    /\ tx_pending = <<>>
    /\ tables = [k \in Kinds |-> <<>>]
    /\ devices = <<>>
    /\ upserts = <<>>

\* The result of get_stats: the statistics, queue_size, queue_capacity, is_running.
NoStats == [operations_queued |-> 0, operations_completed |-> 0, batch_inserts |-> 0,
            errors |-> 0, queue_overflows |-> 0, queue_size |-> 0,
            queue_capacity |-> max_queue_size, is_running |-> FALSE]

\* No call of get_stats, wait_for_queue_empty or wait_for_processing yet.
CallersIdle ==
    /\ gs_pc = "idle"
    /\ gs_stats = NoStats
    /\ gs_result = NoStats
    /\ wq_result = "none"
    /\ wq_done = FALSE
    /\ wp_result = "none"
    /\ wp_done = FALSE
    /\ h_pc = "idle"
    /\ h_todo = <<>>
    /\ h_msgs = <<>>
    /\ h_log = <<>>
    /\ d_pc = "idle"
    /\ d_phase = 0
    /\ d_idx = 0
    /\ d_live = FALSE
    /\ d_list = <<>>
    /\ d_kept = {}
    /\ d_seen = {}
    /\ d_calls = <<>>

\* The DatabaseManager after __init__.
DbIdle ==
    /\ db_is_running = FALSE
    /\ operation_queue = <<>>
    /\ op_unfinished = 0
    /\ db_stats = [operations_queued |-> 0, operations_completed |-> 0,
                   batch_inserts |-> 0, errors |-> 0, queue_overflows |-> 0]
    /\ worker_thread = 0
    /\ w_pc = [w \in Workers |-> "none"]
    /\ w_batch = [w \in Workers |-> <<>>]
    /\ w_op = [w \in Workers |-> NoOp]
    /\ w_old = [w \in Workers |-> FALSE]
    /\ dbctl_pc = "idle"
    /\ prod_pc = "idle"
    /\ prod_op = NoOp
    /\ prod_result = "none"
    /\ ops_created = 0
    /\ accepted = {}
    /\ store = <<>>
    /\ buffer_audit = <<>>
    /\ batches = <<>>
    /\ TxIdle
    /\ CallersIdle

\* The MQTTReceiver after __init__.
RecvIdle ==
    /\ message_buffer = <<>>
    /\ recv_stats = [messages_received |-> 0, messages_processed |-> 0,
                     buffer_overflows |-> 0, last_message_time |-> 0]
    /\ processing_queue = <<>>
    /\ unfinished_tasks = 0
    /\ recv_is_running = FALSE
    /\ loop_running = FALSE
    /\ cb_pc = "idle"
    /\ cb_msg = NoneMsg
    /\ proc_pc = [t \in Threads |-> "none"]
    /\ proc_msg = [t \in Threads |-> NoneMsg]
    /\ processor_thread = 0
    /\ ctl_pc = "idle"
    /\ arrived = 0
    /\ recorded = <<>>
    /\ rd_pc = "idle"
    /\ rd_size = 0
    /\ recent = <<>>
    /\ snapshot = [messages_received |-> 0, messages_processed |-> 0,
                   buffer_overflows |-> 0, last_message_time |-> 0,
                   current_buffer_size |-> 0, buffer_capacity |-> buffer_size,
                   processing_queue_size |-> 0]

\* No operation of the receiver has made handler calls yet.
NoDispatch ==
    /\ last_op = "none"
    /\ disp_topic = <<>>
    /\ disp_raisers = {}
    /\ invoked = <<>>

InitDispatch ==
    /\ RecvIdle
    /\ DbIdle
    /\ NoDispatch
    /\ message_handlers = EmptyRegistry

\* Number of handler functions in the lists of one category's dict.
RECURSIVE dict_size(_)
dict_size(d) ==
    IF DOMAIN d = {} THEN 0
    ELSE LET k == CHOOSE x \in DOMAIN d : TRUE
         IN  Len(d[k]) + dict_size(dict_del(d, k))

\* Number of handler functions in the registry.
registry_size(handlers) == dict_size(handlers["sensors"]) + dict_size(handlers["status"])

\* register_handler(message_type, handler_key, handler_function)
Register(c, k, h) ==
    /\ message_handlers' = register_handler(message_handlers, c, k, h)
    /\ last_op' = "register"
    /\ disp_topic' = <<>>
    /\ disp_raisers' = {}
    /\ invoked' = <<>>
    /\ UNCHANGED <<recv_vars, db_vars, tx_vars, call_vars>>

\* unregister_handler(message_type, handler_key, handler_function=None)
Unregister(c, k, h) ==
    /\ k \in DOMAIN message_handlers[c]
    /\ message_handlers' = unregister_handler(message_handlers, c, k, h)
    /\ last_op' = "unregister"
    /\ disp_topic' = <<>>
    /\ disp_raisers' = {}
    /\ invoked' = <<>>
    /\ UNCHANGED <<recv_vars, db_vars, tx_vars, call_vars>>

\* One call of _process_single_message on the processor thread.
Dispatch(topic, raisers) ==
    /\ last_op' = "dispatch"
    /\ disp_topic' = topic
    /\ disp_raisers' = raisers
    /\ invoked' = process_single_message(message_handlers, topic, raisers)
    /\ UNCHANGED <<recv_vars, message_handlers, db_vars, tx_vars, call_vars>>

\* At most one handler raises for one message.
RaiserSets == {{}} \cup {{h} : h \in Handlers}

NextDispatch ==
    \/ /\ registry_size(message_handlers) < MaxRegs
       /\ \E c \in Categories, k \in Patterns, h \in Handlers : Register(c, k, h)
    \/ \E c \in Categories, k \in Patterns, h \in Handlers \cup {""} : Unregister(c, k, h)
    \/ \E topic \in Topics, raisers \in RaiserSets : Dispatch(topic, raisers)

SpecDispatch == InitDispatch /\ [][NextDispatch]_vars

(***************************************************************************)
(* SpecIter: one _process_single_message call after another, statement by  *)
(* statement (reciever.py:190-208), while another thread calls             *)
(* register_handler and unregister_handler.  The registry has no lock.     *)
(***************************************************************************)
\* The variables of the callers other than the dispatch in steps.
caller_vars == <<gs_pc, gs_stats, gs_result, wq_result, wq_done, wp_result, wp_done,
                 h_pc, h_todo, h_msgs, h_log>>

\* The message of every dispatch: topic devices/d1/sensors/temp.
IterDevice == "d1"
IterType == "sensors"
IterSubType == "temp"

\* The handler keys the worker and the other thread use.
IterKeys == {handler_key(IterDevice, IterSubType), "*", device_wildcard(IterDevice)}

\* The functions the other thread registers and unregisters.
IterHandlers == {"h1", "h2"}

\* The key of lines 195, 200 and 206.
phase_key(phase) ==
    CASE phase = 1 -> handler_key(IterDevice, IterSubType)
      [] phase = 2 -> "*"
      [] OTHER -> device_wildcard(IterDevice)

\* The <<key, fn>> pairs of a category's dict.
registrations(handlers, message_type) ==
    UNION {{<<k, handlers[message_type][k][i]>> : i \in 1..Len(handlers[message_type][k])} :
              k \in DOMAIN handlers[message_type]}

\* The list object the for loop iterates: the registry's list, or the list as it was
\* left when its key was deleted.
iterated_list ==
    IF d_live THEN bucket(message_handlers, IterType, phase_key(d_phase)) ELSE d_list

\* _process_single_message is entered for a message (lines 183-192).
IterBegin ==
    /\ d_pc = "idle"
    /\ d_pc' = "test"
    /\ d_phase' = 1
    /\ UNCHANGED <<d_idx, d_live, d_list>>
    /\ d_kept' = registrations(message_handlers, IterType)
    /\ d_seen' = registrations(message_handlers, IterType)
    /\ d_calls' = <<>>
    /\ UNCHANGED <<recv_vars, disp_vars, message_handlers, db_vars, tx_vars, caller_vars>>

\* After the last of the three keys the call returns.
after_phase(phase) == IF phase < 3 THEN "test" ELSE "end"

\* Lines 195, 200, 206: if key in self.message_handlers[message_type].
IterTest ==
    /\ d_pc = "test"
    /\ IF phase_key(d_phase) \in DOMAIN message_handlers[IterType]
       THEN /\ d_pc' = "list"
            /\ UNCHANGED d_phase
       ELSE /\ d_pc' = after_phase(d_phase)
            /\ d_phase' = d_phase + 1
    /\ UNCHANGED <<d_idx, d_live, d_list, d_kept, d_seen, d_calls>>
    /\ UNCHANGED <<recv_vars, disp_vars, message_handlers, db_vars, tx_vars, caller_vars>>

\* Lines 196, 201, 207: the for statement evaluates message_handlers[type][key]; a
\* key deleted since the test raises KeyError into the except of line 212.
IterList ==
    /\ d_pc = "list"
    /\ IF phase_key(d_phase) \in DOMAIN message_handlers[IterType]
       THEN /\ d_pc' = "loop"
            /\ d_live' = TRUE
       ELSE /\ d_pc' = "end"
            /\ d_live' = FALSE
    /\ d_idx' = 0
    /\ d_list' = <<>>
    /\ UNCHANGED <<d_phase, d_kept, d_seen, d_calls>>
    /\ UNCHANGED <<recv_vars, disp_vars, message_handlers, db_vars, tx_vars, caller_vars>>

\* One round of the for loop: the list iterator gives the element at its index, if
\* the list is that long, and the handler is called (lines 197, 202, 208).
IterNext ==
    /\ d_pc = "loop"
    /\ IF d_idx < Len(iterated_list)
       THEN /\ d_calls' = Append(d_calls, iterated_list[d_idx + 1])
            /\ d_idx' = d_idx + 1
            /\ UNCHANGED <<d_pc, d_phase, d_live, d_list>>
       ELSE /\ d_pc' = after_phase(d_phase)
            /\ d_phase' = d_phase + 1
            /\ d_idx' = 0
            /\ d_live' = FALSE
            /\ d_list' = <<>>
            /\ UNCHANGED d_calls
    /\ UNCHANGED <<d_kept, d_seen>>
    /\ UNCHANGED <<recv_vars, disp_vars, message_handlers, db_vars, tx_vars, caller_vars>>

\* Line 210 and the return.
IterEnd ==
    /\ d_pc = "end"
    /\ d_pc' = "idle"
    /\ d_phase' = 0
    /\ d_idx' = 0
    /\ d_live' = FALSE
    /\ d_list' = <<>>
    /\ d_kept' = {}
    /\ d_seen' = {}
    /\ d_calls' = <<>>
    /\ UNCHANGED <<recv_vars, disp_vars, message_handlers, db_vars, tx_vars, caller_vars>>

\* register_handler on another thread, for a function not yet under the key.
IterRegister(k, fn) ==
    /\ \A i \in 1..Len(bucket(message_handlers, IterType, k)) :
           bucket(message_handlers, IterType, k)[i] # fn
    /\ message_handlers' = register_handler(message_handlers, IterType, k, fn)
    /\ d_seen' = IF d_pc = "idle" THEN d_seen ELSE d_seen \cup {<<k, fn>>}
    /\ UNCHANGED <<d_pc, d_phase, d_idx, d_live, d_list, d_kept, d_calls>>
    /\ UNCHANGED <<recv_vars, disp_vars, db_vars, tx_vars, caller_vars>>

\* unregister_handler on another thread: remove() changes the list in place, del
\* takes the list out of the registry.
IterUnregister(k, fn) ==
    /\ k \in DOMAIN message_handlers[IterType]
    /\ message_handlers' = unregister_handler(message_handlers, IterType, k, fn)
    /\ d_kept' = {r \in d_kept : ~(r[1] = k /\ (fn = "" \/ r[2] = fn))}
    /\ IF /\ d_pc = "loop"
          /\ d_live
          /\ k = phase_key(d_phase)
          /\ k \notin DOMAIN message_handlers'[IterType]
       THEN /\ d_live' = FALSE
            /\ d_list' = IF fn = "" THEN message_handlers[IterType][k] ELSE <<>>
       ELSE UNCHANGED <<d_live, d_list>>
    /\ UNCHANGED <<d_pc, d_phase, d_idx, d_seen, d_calls>>
    /\ UNCHANGED <<recv_vars, disp_vars, db_vars, tx_vars, caller_vars>>

NextIter ==
    \/ IterBegin
    \/ IterTest
    \/ IterList
    \/ IterNext
    \/ IterEnd
    \/ /\ registry_size(message_handlers) < MaxIterRegs
       /\ \E k \in IterKeys, fn \in IterHandlers : IterRegister(k, fn)
    \/ \E k \in IterKeys, fn \in IterHandlers \cup {""} : IterUnregister(k, fn)

SpecIter == InitDispatch /\ [][NextIter]_vars

(***************************************************************************)
(* SpecRecv: MQTTReceiver's ingest buffer, intake queue, processor thread, *)
(* start and stop (reciever.py:95-175, 280-373).                           *)
(***************************************************************************)
\* queue.Queue(maxsize=buffer_size * 2)
processing_maxsize == buffer_size * 2

\* The handlers DatabaseIntegration and the dashboard register before start().
IntegrationRegistry ==
    [c \in Categories |->
        IF c = "sensors" THEN [k \in {"*"} |-> <<"h1", "h2">>]
        ELSE [k \in {"*"} |-> <<"h1">>]]

InitRecv ==
    /\ RecvIdle
    /\ DbIdle
    /\ NoDispatch
    /\ message_handlers = IntegrationRegistry

\* A buffer that grows without evicting.
buffer_append_no_evict(buffer, m) == Append(buffer, m)

\* The buffer_lock section of _on_message, lines 116-122: evict the oldest message
\* when the buffer is full, then append.
buffer_append(buffer, m) ==
    IF Len(buffer) >= buffer_size THEN Append(Tail(buffer), m) ELSE Append(buffer, m)

\* An overflow counter that misses the evictions from a buffer exactly full.
overflow_after_late(buffer, overflows) ==
    IF Len(buffer) > buffer_size THEN overflows + 1 ELSE overflows

\* _on_message, lines 116-119: buffer_overflows after the buffer_lock section.
overflow_after(buffer, overflows) ==
    IF Len(buffer) >= buffer_size THEN overflows + 1 ELSE overflows

\* _on_message, lines 100-122: build message_data and add it to the buffer.
OnMessageBuffer(topic, json) ==
    /\ loop_running
    /\ cb_pc = "idle"
    /\ arrived < MaxMsgs
    /\ LET m == [id |-> arrived + 1, topic |-> topic, json |-> json]
       IN  /\ message_buffer' = buffer_append(message_buffer, m)
           /\ recv_stats' = [recv_stats EXCEPT !.buffer_overflows =
                                overflow_after(message_buffer, @)]
           /\ recorded' = Append(recorded, m.id)
           /\ cb_msg' = m
    /\ arrived' = arrived + 1
    /\ cb_pc' = "put"
    /\ UNCHANGED <<processing_queue, unfinished_tasks, recv_is_running, loop_running,
                   proc_pc, proc_msg, processor_thread, ctl_pc, rd_pc, rd_size, snapshot, recent,
                   disp_vars, message_handlers, db_vars, tx_vars, call_vars>>

\* A put that waits until the processor thread has made room in the queue.
OnMessagePutBlocking ==
    /\ cb_pc = "put"
    /\ Len(processing_queue) < processing_maxsize
    /\ processing_queue' = Append(processing_queue, cb_msg)
    /\ unfinished_tasks' = unfinished_tasks + 1
    /\ cb_pc' = "count"
    /\ UNCHANGED <<message_buffer, recv_stats, recv_is_running, loop_running, cb_msg,
                   proc_pc, proc_msg, processor_thread, ctl_pc, arrived, recorded,
                   rd_pc, rd_size, snapshot, recent, disp_vars, message_handlers, db_vars, tx_vars, call_vars>>

\* _on_message, lines 124-128: processing_queue.put(message_data, block=False).
OnMessagePut ==
    /\ cb_pc = "put"
    /\ IF Len(processing_queue) < processing_maxsize
       THEN /\ processing_queue' = Append(processing_queue, cb_msg)
            /\ unfinished_tasks' = unfinished_tasks + 1
       ELSE UNCHANGED <<processing_queue, unfinished_tasks>>
    /\ cb_pc' = "count"
    /\ UNCHANGED <<message_buffer, recv_stats, recv_is_running, loop_running, cb_msg,
                   proc_pc, proc_msg, processor_thread, ctl_pc, arrived, recorded,
                   rd_pc, rd_size, snapshot, recent, disp_vars, message_handlers, db_vars, tx_vars, call_vars>>

\* _on_message, lines 130-133: the statistics update under stats_lock.
OnMessageCount ==
    /\ cb_pc = "count"
    /\ recv_stats' = [recv_stats EXCEPT !.messages_received = @ + 1,
                                        !.last_message_time = cb_msg.id]
    /\ cb_pc' = "idle"
    /\ UNCHANGED <<message_buffer, processing_queue, unfinished_tasks, recv_is_running,
                   loop_running, cb_msg, proc_pc, proc_msg, processor_thread, ctl_pc,
                   arrived, recorded, rd_pc, rd_size, snapshot, recent, disp_vars, message_handlers, db_vars, tx_vars, call_vars>>

\* clear_buffer
ClearBuffer ==
    /\ message_buffer # <<>>
    /\ message_buffer' = <<>>
    /\ recorded' = <<>>
    /\ UNCHANGED <<recv_stats, processing_queue, unfinished_tasks, recv_is_running,
                   loop_running, cb_pc, cb_msg, proc_pc, proc_msg, processor_thread,
                   ctl_pc, arrived, rd_pc, rd_size, snapshot, recent, disp_vars, message_handlers, db_vars, tx_vars, call_vars>>

\* get_buffer_stats, lines 282-284: the buffer_lock section.
StatsReadBuffer ==
    /\ rd_pc = "idle"
    /\ rd_size' = Len(message_buffer)
    /\ rd_pc' = "stats"
    /\ UNCHANGED <<message_buffer, recv_stats, processing_queue, unfinished_tasks,
                   recv_is_running, loop_running, cb_pc, cb_msg, proc_pc, proc_msg,
                   processor_thread, ctl_pc, arrived, recorded, snapshot, recent, disp_vars,
                   message_handlers, db_vars, tx_vars, call_vars>>

\* get_buffer_stats, lines 286-293: the stats_lock section and the result.
StatsReadStats ==
    /\ rd_pc = "stats"
    /\ snapshot' = [messages_received |-> recv_stats.messages_received,
                    messages_processed |-> recv_stats.messages_processed,
                    buffer_overflows |-> recv_stats.buffer_overflows,
                    last_message_time |-> recv_stats.last_message_time,
                    current_buffer_size |-> rd_size,
                    buffer_capacity |-> buffer_size,
                    processing_queue_size |-> Len(processing_queue)]
    /\ rd_pc' = "idle"
    /\ UNCHANGED <<message_buffer, recv_stats, processing_queue, unfinished_tasks,
                   recv_is_running, loop_running, cb_pc, cb_msg, proc_pc, proc_msg,
                   processor_thread, ctl_pc, arrived, recorded, rd_size, recent, disp_vars,
                   message_handlers, db_vars, tx_vars, call_vars>>

\* get_recent_messages, lines 305-308: list(buffer)[-count:] reversed; in Python
\* a[-0:] is the whole list.
get_recent_messages(buffer, count) ==
    LET n == Len(buffer)
        first == IF count = 0 \/ count >= n THEN 1 ELSE n - count + 1
    IN  [i \in 1..(n - first + 1) |-> buffer[n - i + 1]]

\* get_recent_messages(count), one buffer_lock section.
GetRecentMessages(count) ==
    /\ recent' = [i \in 1..Len(get_recent_messages(message_buffer, count)) |->
                     get_recent_messages(message_buffer, count)[i].id]
    /\ UNCHANGED <<message_buffer, recv_stats, processing_queue, unfinished_tasks,
                   recv_is_running, loop_running, cb_pc, cb_msg, proc_pc, proc_msg,
                   processor_thread, ctl_pc, arrived, recorded, rd_pc, rd_size,
                   snapshot, disp_vars, message_handlers, db_vars, tx_vars, call_vars>>

\* A loop that does not read is_running: a thread that only some item it gets can end.
ProcCheckNoFlag(t) ==
    /\ proc_pc[t] = "check"
    /\ proc_pc' = [proc_pc EXCEPT ![t] = "get"]
    /\ UNCHANGED <<message_buffer, recv_stats, processing_queue, unfinished_tasks,
                   recv_is_running, loop_running, cb_pc, cb_msg, proc_msg,
                   processor_thread, ctl_pc, arrived, recorded, rd_pc, rd_size, snapshot, recent,
                   disp_vars, message_handlers, db_vars, tx_vars, call_vars>>

\* _message_processor, line 152: while self.is_running.
ProcCheck(t) ==
    /\ proc_pc[t] = "check"
    /\ proc_pc' = [proc_pc EXCEPT ![t] = IF recv_is_running THEN "get" ELSE "exited"]
    /\ UNCHANGED <<message_buffer, recv_stats, processing_queue, unfinished_tasks,
                   recv_is_running, loop_running, cb_pc, cb_msg, proc_msg,
                   processor_thread, ctl_pc, arrived, recorded, rd_pc, rd_size, snapshot, recent,
                   disp_vars, message_handlers, db_vars, tx_vars, call_vars>>

\* _message_processor, lines 155-158: processing_queue.get(timeout=1.0) returns an
\* item; None ends the thread.
ProcGet(t) ==
    /\ proc_pc[t] = "get"
    /\ processing_queue # <<>>
    /\ processing_queue' = Tail(processing_queue)
    /\ IF Head(processing_queue) = NoneMsg
       THEN /\ proc_pc' = [proc_pc EXCEPT ![t] = "exited"]
            /\ UNCHANGED proc_msg
       ELSE /\ proc_pc' = [proc_pc EXCEPT ![t] = "dispatch"]
            /\ proc_msg' = [proc_msg EXCEPT ![t] = Head(processing_queue)]
    /\ UNCHANGED <<message_buffer, recv_stats, unfinished_tasks, recv_is_running,
                   loop_running, cb_pc, cb_msg, processor_thread, ctl_pc, arrived,
                   recorded, rd_pc, rd_size, snapshot, recent, disp_vars, message_handlers, db_vars, tx_vars, call_vars>>

\* _message_processor, lines 170-171: the get timed out on an empty queue.
ProcTimeout(t) ==
    /\ proc_pc[t] = "get"
    /\ processing_queue = <<>>
    /\ proc_pc' = [proc_pc EXCEPT ![t] = "check"]
    /\ UNCHANGED <<message_buffer, recv_stats, processing_queue, unfinished_tasks,
                   recv_is_running, loop_running, cb_pc, cb_msg, proc_msg,
                   processor_thread, ctl_pc, arrived, recorded, rd_pc, rd_size, snapshot, recent,
                   disp_vars, message_handlers, db_vars, tx_vars, call_vars>>

\* A processor thread that a raising handler ends.
ProcDispatchFatal(t, raisers) ==
    /\ proc_pc[t] = "dispatch"
    /\ last_op' = "dispatch"
    /\ disp_topic' = proc_msg[t].topic
    /\ disp_raisers' = raisers
    /\ invoked' = process_single_message(message_handlers, proc_msg[t].topic, raisers)
    /\ proc_pc' = [proc_pc EXCEPT ![t] =
                      IF first_raise(matched_handlers(message_handlers, proc_msg[t].topic),
                                     raisers) = 0
                      THEN "done" ELSE "exited"]
    /\ UNCHANGED <<message_buffer, recv_stats, processing_queue, unfinished_tasks,
                   recv_is_running, loop_running, cb_pc, cb_msg, proc_msg,
                   processor_thread, ctl_pc, arrived, recorded, rd_pc, rd_size, snapshot, recent,
                   message_handlers, db_vars, tx_vars, call_vars>>

\* _message_processor, line 161: self._process_single_message(message_data).
ProcDispatch(t, raisers) ==
    /\ proc_pc[t] = "dispatch"
    /\ last_op' = "dispatch"
    /\ disp_topic' = proc_msg[t].topic
    /\ disp_raisers' = raisers
    /\ invoked' = process_single_message(message_handlers, proc_msg[t].topic, raisers)
    /\ proc_pc' = [proc_pc EXCEPT ![t] = "done"]
    /\ UNCHANGED <<message_buffer, recv_stats, processing_queue, unfinished_tasks,
                   recv_is_running, loop_running, cb_pc, cb_msg, proc_msg,
                   processor_thread, ctl_pc, arrived, recorded, rd_pc, rd_size, snapshot, recent,
                   message_handlers, db_vars, tx_vars, call_vars>>

\* _message_processor, lines 163-168: count the message, then task_done().
ProcDone(t) ==
    /\ proc_pc[t] = "done"
    /\ recv_stats' = [recv_stats EXCEPT !.messages_processed = @ + 1]
    /\ unfinished_tasks' = unfinished_tasks - 1
    /\ proc_pc' = [proc_pc EXCEPT ![t] = "check"]
    /\ UNCHANGED <<message_buffer, processing_queue, recv_is_running, loop_running,
                   cb_pc, cb_msg, proc_msg, processor_thread, ctl_pc, arrived, recorded,
                   rd_pc, rd_size, snapshot, recent, disp_vars, message_handlers, db_vars, tx_vars, call_vars>>

\* A thread object that start() can create: one that never ran or has ended.
FreeThreads == {t \in Threads : proc_pc[t] \in {"none", "exited"}}

\* start(), lines 318-344: connect, subscribe, loop_start and the new processor thread.
Start(t) ==
    /\ ctl_pc = "idle"
    /\ ~recv_is_running
    /\ t \in FreeThreads
    /\ recv_is_running' = TRUE
    /\ loop_running' = TRUE
    /\ proc_pc' = [proc_pc EXCEPT ![t] = "check"]
    /\ processor_thread' = t
    /\ UNCHANGED <<message_buffer, recv_stats, processing_queue, unfinished_tasks,
                   cb_pc, cb_msg, proc_msg, ctl_pc, arrived, recorded, rd_pc, rd_size,
                   snapshot, recent, disp_vars, message_handlers, db_vars, tx_vars, call_vars>>

\* stop(), lines 353-357: clear the flag.
StopFlag ==
    /\ ctl_pc = "idle"
    /\ recv_is_running
    /\ recv_is_running' = FALSE
    /\ ctl_pc' = "loop_stop"
    /\ UNCHANGED <<message_buffer, recv_stats, processing_queue, unfinished_tasks,
                   loop_running, cb_pc, cb_msg, proc_pc, proc_msg, processor_thread,
                   arrived, recorded, rd_pc, rd_size, snapshot, recent, disp_vars,
                   message_handlers, db_vars, tx_vars, call_vars>>

\* stop(), lines 359-367: loop_stop() joins the network thread, then the shutdown
\* signal is put without blocking (dropped when the queue is full).
StopSignal ==
    /\ ctl_pc = "loop_stop"
    /\ cb_pc = "idle"
    /\ loop_running' = FALSE
    /\ IF Len(processing_queue) < processing_maxsize
       THEN /\ processing_queue' = Append(processing_queue, NoneMsg)
            /\ unfinished_tasks' = unfinished_tasks + 1
       ELSE UNCHANGED <<processing_queue, unfinished_tasks>>
    /\ ctl_pc' = "join"
    /\ UNCHANGED <<message_buffer, recv_stats, recv_is_running, cb_pc, cb_msg, proc_pc,
                   proc_msg, processor_thread, arrived, recorded, rd_pc, rd_size,
                   snapshot, recent, disp_vars, message_handlers, db_vars, tx_vars, call_vars>>

\* stop(), lines 369-373: join(timeout=5.0) returns when the thread has ended, or
\* after 5 seconds while a handler is still running.
StopJoin ==
    /\ ctl_pc = "join"
    /\ proc_pc[processor_thread] \in {"exited", "dispatch"}
    /\ ctl_pc' = "idle"
    /\ UNCHANGED <<message_buffer, recv_stats, processing_queue, unfinished_tasks,
                   recv_is_running, loop_running, cb_pc, cb_msg, proc_pc, proc_msg,
                   processor_thread, arrived, recorded, rd_pc, rd_size, snapshot, recent,
                   disp_vars, message_handlers, db_vars, tx_vars, call_vars>>

\* The whole life cycle of the receiver: messages, the processor threads, start, stop.
NextRecv ==
    \/ \E topic \in RecvTopics : OnMessageBuffer(topic, TRUE)
    \/ OnMessagePut
    \/ OnMessageCount
    \/ \E t \in Threads : ProcCheck(t)
    \/ \E t \in Threads : ProcGet(t)
    \/ \E t \in Threads : ProcTimeout(t)
    \/ \E t \in Threads, raisers \in {{}, {"h1"}} : ProcDispatch(t, raisers)
    \/ \E t \in Threads : ProcDone(t)
    \/ \E t \in Threads : Start(t)
    \/ StopFlag
    \/ StopSignal
    \/ StopJoin

SpecRecv == InitRecv /\ [][NextRecv]_vars

(***************************************************************************)
(* SpecBuf: the ingest buffer of a started receiver: _on_message and       *)
(* clear_buffer, with one processor thread draining the intake queue.      *)
(* SpecBufStats adds a thread that calls get_buffer_stats.                 *)
(***************************************************************************)
NextBuf ==
    \/ Start(1)
    \/ \E topic \in RecvTopics : OnMessageBuffer(topic, TRUE)
    \/ OnMessagePut
    \/ OnMessageCount
    \/ ClearBuffer
    \/ ProcCheck(1)
    \/ ProcGet(1)
    \/ ProcTimeout(1)
    \/ ProcDispatch(1, {})
    \/ ProcDone(1)

SpecBuf == InitRecv /\ [][NextBuf]_vars

\* SpecLife: start() and stop() of the receiver, called again and again, with its
\* processor threads and a few messages.  The sentinel of a stop() stays in
\* unfinished_tasks for ever, so the stop() calls are counted out by it.
NextLife ==
    \/ /\ arrived < MaxLifeMsgs
       /\ OnMessageBuffer(<<"devices", "d1", "sensors", "temp">>, TRUE)
    \/ OnMessagePut
    \/ OnMessageCount
    \/ \E t \in Threads : ProcCheck(t)
    \/ \E t \in Threads : ProcGet(t)
    \/ \E t \in Threads : ProcTimeout(t)
    \/ \E t \in Threads : ProcDispatch(t, {})
    \/ \E t \in Threads : ProcDone(t)
    \/ \E t \in Threads : Start(t)
    \/ unfinished_tasks < MaxUnfinished /\ StopFlag
    \/ StopSignal
    \/ StopJoin

SpecLife == InitRecv /\ [][NextLife]_vars

\* SpecRaise: a started receiver whose handlers may raise.  FairSpecRaise: the
\* scheduler runs the processor thread whenever it can take a step.
ProcStepRaise(t) ==
    \/ ProcCheck(t)
    \/ ProcGet(t)
    \/ ProcTimeout(t)
    \/ \E raisers \in RaiserSets : ProcDispatch(t, raisers)
    \/ ProcDone(t)

NextRaise ==
    \/ Start(1)
    \/ /\ arrived < MaxRaiseMsgs
       /\ OnMessageBuffer(<<"devices", "d1", "sensors", "temp">>, TRUE)
    \/ OnMessagePut
    \/ OnMessageCount
    \/ ProcStepRaise(1)

SpecRaise == InitRecv /\ [][NextRaise]_vars

FairSpecRaise == SpecRaise /\ WF_vars(ProcStepRaise(1))

\* SpecParse: the receiver with payloads that are JSON documents and payloads
\* that are not (json.loads raises JSONDecodeError, parsed_payload is None).
NextParse ==
    \/ Start(1)
    \/ \E topic \in RecvTopics, json \in BOOLEAN : OnMessageBuffer(topic, json)
    \/ OnMessagePut
    \/ OnMessageCount
    \/ ProcCheck(1)
    \/ ProcGet(1)
    \/ ProcTimeout(1)
    \/ ProcDispatch(1, {})
    \/ ProcDone(1)

SpecParse == InitRecv /\ [][NextParse]_vars

NextBufStats ==
    \/ NextBuf
    \/ StatsReadBuffer
    \/ StatsReadStats

SpecBufStats == InitRecv /\ [][NextBufStats]_vars

\* The operations on the ingest buffer alone: the network thread's _on_message and
\* the threads calling get_buffer_stats, get_recent_messages and clear_buffer.
NextBufOps ==
    \/ Start(1)
    \/ \E topic \in RecvTopics : OnMessageBuffer(topic, TRUE)
    \/ OnMessagePut
    \/ OnMessageCount
    \/ ClearBuffer
    \/ StatsReadBuffer
    \/ StatsReadStats
    \/ \E count \in 0..buffer_size : GetRecentMessages(count)

SpecBufOps == InitRecv /\ [][NextBufOps]_vars

(***************************************************************************)
(* SpecDb: DatabaseManager (db_manager.py:172-299, 365-395, 528-556).      *)
(***************************************************************************)
\* Operation types a producer queues.
OpTypes == {"insert_sensor_data"}

InitDb ==
    /\ RecvIdle
    /\ NoDispatch
    /\ message_handlers = EmptyRegistry
    /\ DbIdle

\* A queue_operation without the is_running test of lines 376-378.
QueueOperationUnchecked(type) ==
    /\ prod_pc = "idle"
    /\ ops_created < MaxOps
    /\ ops_created' = ops_created + 1
    /\ prod_op' = [id |-> ops_created + 1, type |-> type]
    /\ prod_result' = "none"
    /\ prod_pc' = "put"
    /\ UNCHANGED <<recv_vars, disp_vars, message_handlers, tx_vars, call_vars,
                   db_is_running, operation_queue, op_unfinished, db_stats,
                   worker_thread, w_pc, w_batch, w_op, w_old, dbctl_pc, accepted,
                   store, buffer_audit, batches>>

\* queue_operation, lines 376-384: reject when not running, else build the operation.
QueueOperationCheck(type) ==
    /\ prod_pc = "idle"
    /\ ops_created < MaxOps
    /\ ops_created' = ops_created + 1
    /\ prod_op' = [id |-> ops_created + 1, type |-> type]
    /\ IF ~db_is_running
       THEN /\ prod_result' = "False"
            /\ prod_pc' = "idle"
       ELSE /\ prod_result' = "none"
            /\ prod_pc' = "put"
    /\ UNCHANGED <<recv_vars, disp_vars, message_handlers, tx_vars, call_vars,
                   db_is_running, operation_queue, op_unfinished, db_stats,
                   worker_thread, w_pc, w_batch, w_op, w_old, dbctl_pc, accepted,
                   store, buffer_audit, batches>>

\* A put into a queue without maxsize.
queue_put_unbounded(queue, item) == Append(queue, item)

\* Queue.put(item, block=False): the queue after the put (unchanged when full).
queue_put(queue, item) ==
    IF Len(queue) < max_queue_size THEN Append(queue, item) ELSE queue

\* A put that finds the queue full one item too late.
queue_full_late(queue) == Len(queue) > max_queue_size

\* Whether Queue.put(item, block=False) raises queue.Full.
queue_full(queue) == Len(queue) >= max_queue_size

\* queue_operation, lines 386-395: the non-blocking put; a full queue counts an
\* overflow and drops the operation.
QueueOperationPut ==
    /\ prod_pc = "put"
    /\ operation_queue' = queue_put(operation_queue, prod_op)
    /\ IF queue_full(operation_queue)
       THEN /\ db_stats' = [db_stats EXCEPT !.queue_overflows = @ + 1]
            /\ prod_result' = "False"
            /\ UNCHANGED <<op_unfinished, accepted>>
       ELSE /\ op_unfinished' = op_unfinished + 1
            /\ accepted' = accepted \cup {prod_op.id}
            /\ prod_result' = "True"
            /\ UNCHANGED db_stats
    /\ prod_pc' = "idle"
    /\ UNCHANGED <<recv_vars, disp_vars, message_handlers, tx_vars, call_vars,
                   db_is_running, worker_thread, w_pc, w_batch, w_op, w_old, dbctl_pc,
                   prod_op, ops_created, store, buffer_audit, batches>>

\* _db_worker, line 182: while self.is_running; the loop's exit leads to line 220.
WorkerCheck(w) ==
    /\ w_pc[w] = "check"
    /\ w_pc' = [w_pc EXCEPT ![w] = IF db_is_running THEN "get" ELSE "final"]
    /\ UNCHANGED <<recv_vars, disp_vars, message_handlers, tx_vars, call_vars,
                   db_is_running, operation_queue, op_unfinished, db_stats,
                   worker_thread, w_batch, w_op, w_old, dbctl_pc, prod_pc, prod_op,
                   prod_result, ops_created, accepted, store, buffer_audit, batches>>

\* A get that takes the operation queued last (a LIFO queue).
WorkerGetLast(w) ==
    /\ w_pc[w] = "get"
    /\ operation_queue # <<>>
    /\ operation_queue' = SubSeq(operation_queue, 1, Len(operation_queue) - 1)
    /\ w_op' = [w_op EXCEPT ![w] = operation_queue[Len(operation_queue)]]
    /\ UNCHANGED w_old
    /\ w_batch' = [w_batch EXCEPT ![w] = Append(@, operation_queue[Len(operation_queue)])]
    /\ w_pc' = [w_pc EXCEPT ![w] = "count"]
    /\ UNCHANGED <<recv_vars, disp_vars, message_handlers, tx_vars, call_vars,
                   db_is_running, op_unfinished, db_stats, worker_thread,
                   dbctl_pc, prod_pc, prod_op, prod_result, ops_created, accepted,
                   store, buffer_audit, batches>>

\* _db_worker, lines 186-187: operation_queue.get(timeout=1.0) returns an operation.
WorkerGet(w) ==
    /\ w_pc[w] = "get"
    /\ operation_queue # <<>>
    /\ operation_queue' = Tail(operation_queue)
    /\ w_op' = [w_op EXCEPT ![w] = Head(operation_queue)]
    /\ UNCHANGED w_old
    /\ w_batch' = [w_batch EXCEPT ![w] = Append(@, Head(operation_queue))]
    /\ w_pc' = [w_pc EXCEPT ![w] = "count"]
    /\ UNCHANGED <<recv_vars, disp_vars, message_handlers, tx_vars, call_vars,
                   db_is_running, op_unfinished, db_stats, worker_thread,
                   dbctl_pc, prod_pc, prod_op, prod_result, ops_created, accepted,
                   store, buffer_audit, batches>>

\* _db_worker, lines 193-194: the get timed out on an empty queue.
WorkerGetTimeout(w) ==
    /\ w_pc[w] = "get"
    /\ operation_queue = <<>>
    /\ w_op' = [w_op EXCEPT ![w] = NoOp]
    /\ UNCHANGED w_old
    /\ w_pc' = [w_pc EXCEPT ![w] = "decide"]
    /\ UNCHANGED <<recv_vars, disp_vars, message_handlers, tx_vars, call_vars,
                   db_is_running, operation_queue, op_unfinished, db_stats,
                   worker_thread, w_batch, dbctl_pc, prod_pc, prod_op,
                   prod_result, ops_created, accepted, store, buffer_audit, batches>>

\* _db_worker, lines 190-191: operations_queued += 1 under stats_lock.
WorkerCount(w) ==
    /\ w_pc[w] = "count"
    /\ db_stats' = [db_stats EXCEPT !.operations_queued = @ + 1]
    /\ w_pc' = [w_pc EXCEPT ![w] = "decide"]
    /\ UNCHANGED <<recv_vars, disp_vars, message_handlers, tx_vars, call_vars,
                   db_is_running, operation_queue, op_unfinished, worker_thread,
                   w_batch, w_op, w_old, dbctl_pc, prod_pc, prod_op, prod_result,
                   ops_created, accepted, store, buffer_audit, batches>>

\* A worker that flushes whatever it holds after every round.
should_process_batch_eager(batch_operations, operation, old) ==
    Len(batch_operations) > 0

\* _db_worker, lines 198-202: should_process_batch.
should_process_batch(batch_operations, operation, old) ==
    \/ Len(batch_operations) >= batch_size
    \/ (operation = NoOp /\ Len(batch_operations) > 0)
    \/ (old /\ Len(batch_operations) > 0)

\* _db_worker, lines 197-208: take the time, decide.  old says whether the time
\* taken is 5 seconds or more after last_batch_time.
WorkerDecide(w, old) ==
    /\ w_pc[w] = "decide"
    /\ w_old' = [w_old EXCEPT ![w] = old /\ Len(w_batch[w]) > 0]
    /\ IF should_process_batch(w_batch[w], w_op[w], old) /\ w_batch[w] # <<>>
       THEN w_pc' = [w_pc EXCEPT ![w] = "process"]
       ELSE w_pc' = [w_pc EXCEPT ![w] = "task_done"]
    /\ UNCHANGED <<recv_vars, disp_vars, message_handlers, tx_vars, call_vars,
                   db_is_running, operation_queue, op_unfinished, db_stats,
                   worker_thread, w_batch, w_op, dbctl_pc, prod_pc, prod_op,
                   prod_result, ops_created, accepted, store, buffer_audit, batches>>

\* What can happen to one _process_batch call: the transaction commits and the
\* audit row is written ("ok"); an exception before the commit ("fail"); an
\* exception after the commit, while the success audit row is written ("late_fail");
\* and in both failures the failure audit row may itself fail to be written.
Outcomes == {"ok", "fail", "fail_no_audit", "late_fail", "late_fail_no_audit"}

\* The outcomes explored for the batches of SpecDb.
StorageOutcomes == {"ok", "fail"}

\* Whether the data of the batch was committed (line 261 was passed).
data_committed(outcome) == outcome \in {"ok", "late_fail", "late_fail_no_audit"}

\* The ids of a batch.
ids_of(operations) == [i \in 1..Len(operations) |-> operations[i].id]

\* _process_batch, lines 240-261: the rows of the database after the call.
store_after(rows, operations, outcome) ==
    IF data_committed(outcome) THEN rows \o ids_of(operations) ELSE rows

\* A _process_batch whose except branch does not count the error.
stats_after_uncounted(stats, operations, outcome) ==
    IF data_committed(outcome)
    THEN [stats EXCEPT !.operations_completed = @ + Len(operations),
                       !.batch_inserts = @ + 1]
    ELSE stats

\* _process_batch, lines 264-266 and 298-299: the statistics after the call.
stats_after(stats, operations, outcome) ==
    LET counted == IF data_committed(outcome)
                   THEN [stats EXCEPT !.operations_completed = @ + Len(operations),
                                      !.batch_inserts = @ + 1]
                   ELSE stats
    IN  IF outcome = "ok" THEN counted ELSE [counted EXCEPT !.errors = @ + 1]

\* _process_batch, lines 271-276 and 285-296: the buffer_audit table after the call.
audit_after(audit, operations, outcome) ==
    IF outcome = "ok"
    THEN Append(audit, [items_count |-> Len(operations), success |-> TRUE])
    ELSE IF outcome \in {"fail", "late_fail"}
         THEN Append(audit, [items_count |-> Len(operations), success |-> FALSE])
         ELSE audit

\* A worker that keeps the flushed operations in its batch.
batch_kept(batch_operations) == batch_operations

\* _db_worker, line 206: batch_operations = [].
batch_reset(batch_operations) == <<>>

\* _db_worker, lines 205-208: self._process_batch(batch_operations), then the
\* batch is emptied.
WorkerProcess(w, outcome) ==
    /\ w_pc[w] = "process"
    /\ store' = store_after(store, w_batch[w], outcome)
    /\ db_stats' = stats_after(db_stats, w_batch[w], outcome)
    /\ buffer_audit' = audit_after(buffer_audit, w_batch[w], outcome)
    /\ batches' = Append(batches, [ops |-> ids_of(w_batch[w]), outcome |-> outcome,
                                   timed_out |-> w_op[w] = NoOp, aged |-> w_old[w],
                                   final |-> FALSE])
    /\ w_batch' = [w_batch EXCEPT ![w] = batch_reset(@)]
    /\ w_pc' = [w_pc EXCEPT ![w] = "task_done"]
    /\ UNCHANGED <<recv_vars, disp_vars, message_handlers, tx_vars, call_vars,
                   db_is_running, operation_queue, op_unfinished, worker_thread,
                   w_op, w_old, dbctl_pc, prod_pc, prod_op, prod_result, ops_created,
                   accepted>>

\* _db_worker, lines 211-212: task_done() for the operation taken in this round.
WorkerTaskDone(w) ==
    /\ w_pc[w] = "task_done"
    /\ op_unfinished' = IF w_op[w] # NoOp THEN op_unfinished - 1 ELSE op_unfinished
    /\ w_old' = [w_old EXCEPT ![w] = FALSE]
    /\ w_pc' = [w_pc EXCEPT ![w] = "check"]
    /\ UNCHANGED <<recv_vars, disp_vars, message_handlers, tx_vars, call_vars,
                   db_is_running, operation_queue, db_stats, worker_thread, w_batch,
                   w_op, dbctl_pc, prod_pc, prod_op, prod_result, ops_created,
                   accepted, store, buffer_audit, batches>>

\* A worker that ends without processing the batch it still holds.
WorkerFinalDiscard(w, outcome) ==
    /\ w_pc[w] = "final"
    /\ outcome = "ok"
    /\ w_batch' = [w_batch EXCEPT ![w] = <<>>]
    /\ w_pc' = [w_pc EXCEPT ![w] = "exited"]
    /\ UNCHANGED <<recv_vars, disp_vars, message_handlers, tx_vars, call_vars,
                   db_is_running, operation_queue, op_unfinished, worker_thread,
                   w_op, w_old, dbctl_pc, prod_pc, prod_op, prod_result, ops_created,
                   accepted, store, db_stats, buffer_audit, batches>>

\* _db_worker, lines 219-223: after the loop, the remaining batch is processed and
\* the thread ends.
WorkerFinal(w, outcome) ==
    /\ w_pc[w] = "final"
    /\ IF w_batch[w] # <<>>
       THEN /\ store' = store_after(store, w_batch[w], outcome)
            /\ db_stats' = stats_after(db_stats, w_batch[w], outcome)
            /\ buffer_audit' = audit_after(buffer_audit, w_batch[w], outcome)
            /\ batches' = Append(batches, [ops |-> ids_of(w_batch[w]), outcome |-> outcome,
                                           timed_out |-> FALSE, aged |-> FALSE,
                                           final |-> TRUE])
       ELSE /\ outcome = "ok"
            /\ UNCHANGED <<store, db_stats, buffer_audit, batches>>
    /\ w_batch' = [w_batch EXCEPT ![w] = <<>>]
    /\ w_pc' = [w_pc EXCEPT ![w] = "exited"]
    /\ UNCHANGED <<recv_vars, disp_vars, message_handlers, tx_vars, call_vars,
                   db_is_running, operation_queue, op_unfinished, worker_thread,
                   w_op, w_old, dbctl_pc, prod_pc, prod_op, prod_result, ops_created,
                   accepted>>

\* A thread object that start() can create: one that never ran or has ended.
FreeWorkers == {w \in Workers : w_pc[w] \in {"none", "exited"}}

\* start(), lines 530-542.
DbStart(w) ==
    /\ dbctl_pc = "idle"
    /\ ~db_is_running
    /\ w \in FreeWorkers
    /\ db_is_running' = TRUE
    /\ worker_thread' = w
    /\ w_pc' = [w_pc EXCEPT ![w] = "check"]
    /\ w_batch' = [w_batch EXCEPT ![w] = <<>>]
    /\ w_op' = [w_op EXCEPT ![w] = NoOp]
    /\ w_old' = [w_old EXCEPT ![w] = FALSE]
    /\ UNCHANGED <<recv_vars, disp_vars, message_handlers, tx_vars, call_vars,
                   operation_queue, op_unfinished, db_stats, dbctl_pc, prod_pc,
                   prod_op, prod_result, ops_created, accepted, store, buffer_audit,
                   batches>>

\* stop(), lines 546-550: clear the flag.
DbStopFlag ==
    /\ dbctl_pc = "idle"
    /\ db_is_running
    /\ db_is_running' = FALSE
    /\ dbctl_pc' = "join"
    /\ UNCHANGED <<recv_vars, disp_vars, message_handlers, tx_vars, call_vars,
                   operation_queue, op_unfinished, db_stats, worker_thread, w_pc,
                   w_batch, w_op, w_old, prod_pc, prod_op, prod_result, ops_created,
                   accepted, store, buffer_audit, batches>>

\* stop(), lines 553-556: join(timeout=10.0) returns when the worker has ended, or
\* after 10 seconds while the worker is still inside a _process_batch call.
DbStopJoin ==
    /\ dbctl_pc = "join"
    /\ w_pc[worker_thread] \in {"exited", "process"}
    /\ dbctl_pc' = "idle"
    /\ UNCHANGED <<recv_vars, disp_vars, message_handlers, tx_vars, call_vars,
                   db_is_running, operation_queue, op_unfinished, db_stats,
                   worker_thread, w_pc, w_batch, w_op, w_old, prod_pc, prod_op,
                   prod_result, ops_created, accepted, store, buffer_audit, batches>>

\* The steps of the batch worker threads.
WorkerStep(w) ==
    \/ WorkerCheck(w)
    \/ WorkerGet(w)
    \/ WorkerGetTimeout(w)
    \/ WorkerCount(w)
    \/ \E old \in BOOLEAN : WorkerDecide(w, old)
    \/ \E outcome \in StorageOutcomes : WorkerProcess(w, outcome)
    \/ WorkerTaskDone(w)
    \/ \E outcome \in StorageOutcomes : WorkerFinal(w, outcome)

NextDb ==
    \/ \E type \in OpTypes : QueueOperationCheck(type)
    \/ QueueOperationPut
    \/ \E w \in Workers : WorkerStep(w)
    \/ \E w \in Workers : DbStart(w)
    \/ DbStopFlag
    \/ DbStopJoin

SpecDb == InitDb /\ [][NextDb]_vars

\* The scheduler runs every thread that can take a step: the workers, the producer
\* inside queue_operation and the caller of stop() inside join.  Calls of
\* queue_operation, start() and stop() are up to the callers.
FairSpecDb ==
    /\ SpecDb
    /\ \A w \in Workers : WF_vars(WorkerStep(w))
    /\ WF_vars(QueueOperationPut)
    /\ WF_vars(DbStopJoin)

(***************************************************************************)
(* SpecBatch: _process_batch statement by statement (db_manager.py:225-299) *)
(* on batches of every kind, with an exception at any statement.           *)
(***************************************************************************)
\* Where a call can raise: nowhere, in connect (lines 235-237), in the execute of
\* the operation at position pos (lines 246-259), in the commit of line 261, or
\* while the success audit row is written (lines 271-276).
FailPoints(n) ==
    {[at |-> a, pos |-> 0] : a \in {"none", "connect", "commit", "audit"}}
    \cup {[at |-> "execute", pos |-> i] : i \in 1..n}

\* The batches a call is made with: 1..MaxBatchOps operations of any kinds.
KindSeqs == UNION {[1..n -> Kinds] : n \in 1..MaxBatchOps}

\* The operations of one kind, in batch order (lines 240-243).
ops_of_kind(operations, kind) == SelectSeq(operations, LAMBDA op : op.type = kind)

\* The table after the rows of its kind are added.
RECURSIVE commit_rows(_, _)
commit_rows(tabs, rows) ==
    IF rows = <<>> THEN tabs
    ELSE commit_rows([tabs EXCEPT ![rows[1].type] = Append(@, rows[1].id)], Tail(rows))

\* The device ids of the operations.
DeviceIds == {"d1", "d2"}

\* The devices a call's operations are for.
DeviceSeqs == UNION {[1..n -> DeviceIds] : n \in 1..MaxBatchOps}

\* An upsert that writes total_messages = 1 whatever the row held.
upsert_device_reset(devs, device_id, now) ==
    [d \in DOMAIN devs \cup {device_id} |->
        IF d = device_id THEN [total_messages |-> 1, first_seen |-> now] ELSE devs[d]]

\* _batch_update_devices, lines 305-308: INSERT OR REPLACE INTO devices with
\* total_messages = COALESCE((SELECT total_messages ... WHERE device_id = ?), 0) + 1.
\* REPLACE deletes the row of the device and inserts a new one; first_seen is not
\* among the columns given, so the new row takes its default, CURRENT_TIMESTAMP
\* (lines 86-88): the time now of the statement.
upsert_device(devs, device_id, now) ==
    LET previous == IF device_id \in DOMAIN devs
                    THEN devs[device_id].total_messages ELSE 0
    IN  [d \in DOMAIN devs \cup {device_id} |->
            IF d = device_id
            THEN [total_messages |-> previous + 1, first_seen |-> now]
            ELSE devs[d]]

\* _batch_update_devices, lines 303-316: one statement per operation, each seeing
\* what the statements before it wrote.
RECURSIVE batch_update_devices(_, _, _)
batch_update_devices(devs, device_ops, now) ==
    IF device_ops = <<>> THEN devs
    ELSE batch_update_devices(upsert_device(devs, device_ops[1].device, now),
                              Tail(device_ops), now)

\* The time of a _process_batch call, in seconds: the calls of one worker come one
\* after the other, here each in a later second than the call before.
call_time == Len(batches) + 1

\* The devices of a sequence of operations.
devices_of(operations) == [i \in 1..Len(operations) |-> operations[i].device]

\* A failure path that keeps what the statements before the exception wrote.
discard_rows_committed(tabs, rows) == commit_rows(tabs, rows)

\* Lines 281-299 never commit conn: the connection of the try block is dropped
\* with its transaction open, and what it wrote is rolled back.
discard_rows(tabs, rows) == tabs

\* What a finished call was, in the terms of Outcomes.
outcome_of(fail, audit_ok) ==
    IF fail.at = "none" THEN "ok"
    ELSE IF fail.at = "audit"
         THEN (IF audit_ok THEN "late_fail" ELSE "late_fail_no_audit")
         ELSE (IF audit_ok THEN "fail" ELSE "fail_no_audit")

\* _process_batch(operations), lines 232-237.
ProcessBatchCall(kinds, devs, fail, audit_ok) ==
    /\ tx_pc = "idle"
    /\ Len(batches) < MaxCalls
    /\ Len(devs) = Len(kinds)
    /\ fail \in FailPoints(Len(kinds))
    /\ fail.at = "none" => audit_ok
    /\ tx_ops' = [i \in 1..Len(kinds) |-> [id |-> ops_created + i, type |-> kinds[i],
                                            device |-> devs[i]]]
    /\ ops_created' = ops_created + Len(kinds)
    /\ tx_fail' = fail
    /\ tx_audit_ok' = audit_ok
    /\ tx_kind' = 1
    /\ tx_pending' = <<>>
    /\ tx_pc' = IF fail.at = "connect" THEN "except" ELSE "apply"
    /\ UNCHANGED <<recv_vars, disp_vars, message_handlers, call_vars, tables,
                   devices, upserts,
                   db_is_running, operation_queue, op_unfinished, db_stats,
                   worker_thread, w_pc, w_batch, w_op, w_old, dbctl_pc, prod_pc,
                   prod_op, prod_result, accepted, store, buffer_audit, batches>>

\* Lines 246-259: the operations of the next kind are executed one by one.
ProcessBatchKind ==
    /\ tx_pc = "apply"
    /\ LET kind == KindOrder[tx_kind]
           rows == ops_of_kind(tx_ops, kind)
           raises == tx_fail.at = "execute" /\ tx_ops[tx_fail.pos].type = kind
       IN  IF raises
           THEN /\ tx_pending' = tx_pending \o
                      SelectSeq(rows, LAMBDA op : op.id < tx_ops[tx_fail.pos].id)
                /\ tx_pc' = "except"
                /\ UNCHANGED tx_kind
           ELSE /\ tx_pending' = tx_pending \o rows
                /\ IF tx_kind = Len(KindOrder)
                   THEN tx_pc' = "commit" /\ UNCHANGED tx_kind
                   ELSE tx_pc' = "apply" /\ tx_kind' = tx_kind + 1
    /\ UNCHANGED <<recv_vars, disp_vars, message_handlers, call_vars, db_vars,
                   tx_ops, tx_fail, tx_audit_ok, tables, devices, upserts>>

\* Lines 261-266: commit, then the statistics.
ProcessBatchCommit ==
    /\ tx_pc = "commit"
    /\ IF tx_fail.at = "commit"
       THEN /\ tx_pc' = "except"
            /\ UNCHANGED <<tables, devices, upserts, tx_pending, store, db_stats>>
       ELSE /\ tables' = commit_rows(tables, tx_pending)
            /\ devices' = batch_update_devices(devices,
                                ops_of_kind(tx_pending, "update_device"), call_time)
            /\ upserts' = upserts \o devices_of(ops_of_kind(tx_pending, "update_device"))
            /\ store' = store \o ids_of(tx_ops)
            /\ tx_pending' = <<>>
            /\ db_stats' = [db_stats EXCEPT !.operations_completed = @ + Len(tx_ops),
                                            !.batch_inserts = @ + 1]
            /\ tx_pc' = "audit"
    /\ UNCHANGED <<recv_vars, disp_vars, message_handlers, call_vars,
                   tx_ops, tx_kind, tx_fail, tx_audit_ok,
                   db_is_running, operation_queue, op_unfinished, worker_thread,
                   w_pc, w_batch, w_op, w_old, dbctl_pc, prod_pc, prod_op,
                   prod_result, ops_created, accepted, buffer_audit, batches>>

\* Lines 268-279: the success audit row.
ProcessBatchAudit ==
    /\ tx_pc = "audit"
    /\ IF tx_fail.at = "audit"
       THEN /\ tx_pc' = "except"
            /\ UNCHANGED <<buffer_audit, batches>>
       ELSE /\ buffer_audit' = Append(buffer_audit,
                                      [items_count |-> Len(tx_ops), success |-> TRUE])
            /\ batches' = Append(batches, [ops |-> ids_of(tx_ops), outcome |-> "ok",
                                           timed_out |-> FALSE, aged |-> FALSE,
                                           final |-> FALSE])
            /\ tx_pc' = "idle"
    /\ UNCHANGED <<recv_vars, disp_vars, message_handlers, call_vars,
                   tx_ops, tx_kind, tx_fail, tx_audit_ok, tx_pending, tables,
                   devices, upserts,
                   db_is_running, operation_queue, op_unfinished, db_stats,
                   worker_thread, w_pc, w_batch, w_op, w_old, dbctl_pc, prod_pc,
                   prod_op, prod_result, ops_created, accepted, store>>

\* Lines 281-299: the failure audit row inside its own try/except, then errors.
ProcessBatchExcept ==
    /\ tx_pc = "except"
    /\ buffer_audit' = IF tx_audit_ok
                       THEN Append(buffer_audit,
                                   [items_count |-> Len(tx_ops), success |-> FALSE])
                       ELSE buffer_audit
    /\ db_stats' = [db_stats EXCEPT !.errors = @ + 1]
    /\ tables' = discard_rows(tables, tx_pending)
    /\ UNCHANGED <<devices, upserts>>
    /\ tx_pending' = <<>>
    /\ batches' = Append(batches, [ops |-> ids_of(tx_ops),
                                   outcome |-> outcome_of(tx_fail, tx_audit_ok),
                                   timed_out |-> FALSE, aged |-> FALSE,
                                   final |-> FALSE])
    /\ tx_pc' = "idle"
    /\ UNCHANGED <<recv_vars, disp_vars, message_handlers, call_vars,
                   tx_ops, tx_kind, tx_fail, tx_audit_ok,
                   db_is_running, operation_queue, op_unfinished, worker_thread,
                   w_pc, w_batch, w_op, w_old, dbctl_pc, prod_pc, prod_op,
                   prod_result, ops_created, accepted, store>>

NextBatch ==
    \/ \E kinds \in KindSeqs, devs \in DeviceSeqs, fail \in FailPoints(MaxBatchOps),
          audit_ok \in BOOLEAN :
          ProcessBatchCall(kinds, devs, fail, audit_ok)
    \/ ProcessBatchKind
    \/ ProcessBatchCommit
    \/ ProcessBatchAudit
    \/ ProcessBatchExcept

SpecBatch == InitDb /\ [][NextBatch]_vars

(***************************************************************************)
(* SpecDbStats: the engine with one worker thread and a thread that calls  *)
(* get_stats().  SpecWait: the engine and a thread that calls              *)
(* wait_for_queue_empty(timeout) and wait_for_processing(timeout).         *)
(***************************************************************************)
\* get_stats, lines 503-504: stats = self.stats.copy() under stats_lock.
GetStatsCopy ==
    /\ gs_pc = "idle"
    /\ gs_stats' = [NoStats EXCEPT
                       !.operations_queued = db_stats.operations_queued,
                       !.operations_completed = db_stats.operations_completed,
                       !.batch_inserts = db_stats.batch_inserts,
                       !.errors = db_stats.errors,
                       !.queue_overflows = db_stats.queue_overflows]
    /\ gs_pc' = "size"
    /\ UNCHANGED <<recv_vars, disp_vars, message_handlers, db_vars, tx_vars,
                   gs_result, wq_result, wq_done, wp_result, wp_done,
                   h_pc, h_todo, h_msgs, h_log, iter_vars>>

\* get_stats, lines 506-507: queue_size = operation_queue.qsize() and
\* queue_capacity, outside the lock.
GetStatsSize ==
    /\ gs_pc = "size"
    /\ gs_stats' = [gs_stats EXCEPT !.queue_size = Len(operation_queue),
                                    !.queue_capacity = max_queue_size]
    /\ gs_pc' = "running"
    /\ UNCHANGED <<recv_vars, disp_vars, message_handlers, db_vars, tx_vars,
                   gs_result, wq_result, wq_done, wp_result, wp_done,
                   h_pc, h_todo, h_msgs, h_log, iter_vars>>

\* get_stats, lines 508-510: is_running is read and the dictionary returned.
GetStatsReturn ==
    /\ gs_pc = "running"
    /\ gs_result' = [gs_stats EXCEPT !.is_running = db_is_running]
    /\ gs_stats' = NoStats
    /\ gs_pc' = "idle"
    /\ UNCHANGED <<recv_vars, disp_vars, message_handlers, db_vars, tx_vars,
                   wq_result, wq_done, wp_result, wp_done, h_pc, h_todo, h_msgs, h_log, iter_vars>>

\* queue.Queue.join takes no argument: join(timeout=...) raises TypeError before
\* it waits.
queue_join(timeout) == "TypeError"

\* wait_for_queue_empty and wait_for_processing, lines 521-526 and 384-389: the
\* value of join, or False when join raised.
wait_result(join_outcome) ==
    IF join_outcome = "TypeError" THEN "False" ELSE join_outcome

\* wait_for_queue_empty(timeout); wq_done records whether every queued operation
\* was done (task_done called for each) when the call returned.
WaitForQueueEmpty(timeout) ==
    /\ wq_result' = wait_result(queue_join(timeout))
    /\ wq_done' = (op_unfinished = 0)
    /\ <<wq_result', wq_done'>> # <<wq_result, wq_done>>
    /\ UNCHANGED <<recv_vars, disp_vars, message_handlers, db_vars, tx_vars,
                   gs_pc, gs_stats, gs_result, wp_result, wp_done, h_pc, h_todo, h_msgs, h_log, iter_vars>>

\* MQTTReceiver.wait_for_processing(timeout); wp_done records whether every queued
\* message was processed when the call returned.
WaitForProcessing(timeout) ==
    /\ wp_result' = wait_result(queue_join(timeout))
    /\ wp_done' = (unfinished_tasks = 0)
    /\ <<wp_result', wp_done'>> # <<wp_result, wp_done>>
    /\ UNCHANGED <<recv_vars, disp_vars, message_handlers, db_vars, tx_vars,
                   gs_pc, gs_stats, gs_result, wq_result, wq_done, h_pc, h_todo, h_msgs, h_log, iter_vars>>

\* The timeouts of the calls: None and a number of seconds.
Timeouts == {"None", "10.0"}

\* The engine with its first worker thread.
NextEngine ==
    \/ \E type \in OpTypes : QueueOperationCheck(type)
    \/ QueueOperationPut
    \/ WorkerStep(1)
    \/ DbStart(1)
    \/ DbStopFlag
    \/ DbStopJoin

\* The engine with its first worker thread and a storage that never fails.
NextEngineOk ==
    \/ \E type \in OpTypes : QueueOperationCheck(type)
    \/ QueueOperationPut
    \/ WorkerCheck(1)
    \/ WorkerGet(1)
    \/ WorkerGetTimeout(1)
    \/ WorkerCount(1)
    \/ \E old \in BOOLEAN : WorkerDecide(1, old)
    \/ WorkerProcess(1, "ok")
    \/ WorkerTaskDone(1)
    \/ WorkerFinal(1, "ok")
    \/ DbStart(1)
    \/ DbStopFlag
    \/ DbStopJoin

NextDbStats ==
    \/ NextEngineOk
    \/ GetStatsCopy
    \/ GetStatsSize
    \/ GetStatsReturn

SpecDbStats == InitDb /\ [][NextDbStats]_vars

NextWait ==
    \/ NextEngine
    \/ \E timeout \in Timeouts : WaitForQueueEmpty(timeout)
    \/ \E timeout \in Timeouts : WaitForProcessing(timeout)

SpecWait == InitDb /\ [][NextWait]_vars

(***************************************************************************)
(* SpecIntegration: DatabaseIntegration.  The processor thread calls       *)
(* _handle_sensor_data and _handle_status_message for the messages it      *)
(* routes; each handler makes its queue_operation calls one after another  *)
(* while the batch worker drains the queue.                                *)
(***************************************************************************)
\* A key of the payload dictionary: absent, JSON null (None), or a number.
Absent == [kind |-> "absent", v |-> 0]
Null == [kind |-> "null", v |-> 0]
Num(x) == [kind |-> "num", v |-> x]

\* dict.get(key, default).
dict_get(field, default) == IF field.kind = "absent" THEN Num(default) ELSE field

\* raw_message as the processor thread passes it: the message_data dictionary of
\* _on_message, whose 'timestamp' is a datetime; "empty" is a call without it.
RawKinds == {"message_data", "empty"}

\* json.dumps(raw_message) raises TypeError: a datetime is not JSON serializable.
json_dumps_raises(raw) == raw = "message_data"

\* The operation a producer method passes to queue_operation (lines 413-494).
operation(type, device_id, alert_type, alert_level) ==
    [type |-> type, device |-> device_id, alert_type |-> alert_type,
     alert_level |-> alert_level]

update_device_status(device_id) == operation("update_device", device_id, "", "")
insert_sensor_data(device_id) == operation("insert_sensor_data", device_id, "", "")
record_emergency_event(device_id) == operation("emergency_event", device_id, "", "")
create_system_alert(device_id, alert_type, alert_level) ==
    operation("system_alert", device_id, alert_type, alert_level)

\* What a handler does: the producer calls it makes, in order, and whether it
\* ends by raising.
returns(calls) == [calls |-> calls, raised |-> FALSE]
raises(calls) == [calls |-> calls, raised |-> TRUE]

\* _check_critical_conditions, lines 670-690: the pulse branch.  A comparison of
\* None with a number raises TypeError.
pulse_conditions(device_id, data) ==
    LET hr == dict_get(data.heart_rate, 0)
        spo2 == dict_get(data.spo2, 100)
        hr_alert == IF hr.kind = "num" /\ (hr.v < 50 \/ hr.v > 150)
                    THEN <<create_system_alert(device_id, "abnormal_heart_rate", "warning")>>
                    ELSE <<>>
    IN  IF hr.kind = "null" THEN raises(<<>>)
        ELSE IF spo2.kind = "null" THEN raises(hr_alert)
             ELSE IF spo2.v < 90
                  THEN returns(hr_alert \o
                           <<create_system_alert(device_id, "low_oxygen", "critical")>>)
                  ELSE returns(hr_alert)

\* _check_critical_conditions, lines 652-659: the gas branch.
gas_conditions(device_id, data) ==
    IF data.status = "ALARM"
    THEN returns(<<create_system_alert(device_id, "gas_alarm", "critical")>>)
    ELSE returns(<<>>)

\* _check_critical_conditions, lines 650-690.  Temperatures are in degrees, the
\* limit of line 661 is 38.0.
check_critical_conditions(device_id, sensor_type, data) ==
    IF sensor_type = "gas" /\ data.status = "ALARM"
    THEN gas_conditions(device_id, data)
    ELSE IF sensor_type = "temperature"
         THEN LET value == dict_get(data.value, 0)
              IN  IF value.kind = "null" THEN raises(<<>>)
                  ELSE IF value.v > 38
                       THEN returns(<<create_system_alert(device_id, "high_temperature",
                                                          "warning")>>)
                       ELSE returns(<<>>)
         ELSE IF sensor_type = "pulse"
              THEN pulse_conditions(device_id, data)
              ELSE returns(<<>>)

\* _handle_sensor_data, lines 593-614.  The arguments of insert_sensor_data are
\* evaluated before the call: json.dumps(raw_message) for a raw_message that is
\* not empty.
handle_sensor_data(msg) ==
    IF ~msg.json THEN returns(<<>>)
    ELSE IF json_dumps_raises(msg.raw)
         THEN raises(<<update_device_status(msg.device)>>)
         ELSE LET checks == check_critical_conditions(msg.device, msg.sub_type, msg.data)
              IN  [calls |-> <<update_device_status(msg.device),
                               insert_sensor_data(msg.device)>> \o checks.calls,
                   raised |-> checks.raised]

\* _handle_status_message, lines 624-639: the emergency event, then its alert.
emergency_calls(device_id) ==
    <<record_emergency_event(device_id),
      create_system_alert(device_id, "emergency", "critical")>>

\* _handle_status_message, lines 616-648.
handle_status_message(msg) ==
    IF ~msg.json THEN returns(<<>>)
    ELSE IF msg.sub_type = "emergency"
         THEN returns(<<update_device_status(msg.device)>> \o emergency_calls(msg.device))
         ELSE IF msg.sub_type = "warning"
              THEN returns(<<update_device_status(msg.device),
                             create_system_alert(msg.device, "warning", "warning")>>)
              ELSE returns(<<update_device_status(msg.device)>>)

\* The handler _register_handlers registers for the category (lines 580-590).
handle(msg) ==
    IF msg.category = "sensors" THEN handle_sensor_data(msg)
    ELSE handle_status_message(msg)

\* The payloads of the messages: no key the branches do not read.
NoFields == [status |-> "absent", value |-> Absent, heart_rate |-> Absent, spo2 |-> Absent]

GasData ==
    {[NoFields EXCEPT !.status = st, !.value = v] :
        st \in {"ALARM", "OK"}, v \in {Absent, Num(39)}}

TemperatureData == {[NoFields EXCEPT !.value = v] : v \in {Num(37), Num(39)}}

PulseData ==
    {[NoFields EXCEPT !.heart_rate = hr, !.spo2 = o] :
        hr \in {Absent, Num(70), Num(200), Null}, o \in {Absent, Num(85)}}

message(category, sub_type, data) ==
    [device |-> "d1", category |-> category, sub_type |-> sub_type, json |-> TRUE,
     data |-> data]

\* The messages of topics devices/d1/sensors/+ and devices/d1/status/+.
Messages ==
    {message("sensors", "gas", data) : data \in GasData}
    \cup {message("sensors", "temperature", data) : data \in TemperatureData}
    \cup {message("sensors", "pulse", data) : data \in PulseData}
    \cup {message("status", st, NoFields) : st \in {"emergency", "warning", "heartbeat"}}
    \cup {[message("sensors", "gas", NoFields) EXCEPT !.json = FALSE]}

\* _process_single_message calls the handler of a message (lines 203-205); the
\* handler's calls are made one by one by HandlerCall.
HandleMessage(msg, raw) ==
    /\ h_pc = "idle"
    /\ prod_pc = "idle"
    /\ Len(h_msgs) < MaxHandled
    /\ LET m == [device |-> msg.device, category |-> msg.category,
                 sub_type |-> msg.sub_type, json |-> msg.json, data |-> msg.data,
                 raw |-> raw]
       IN  /\ h_todo' = handle(m).calls
           /\ h_msgs' = Append(h_msgs, [msg |-> m, raised |-> handle(m).raised])
    /\ h_pc' = "call"
    /\ UNCHANGED <<recv_vars, disp_vars, message_handlers, db_vars, tx_vars,
                   gs_pc, gs_stats, gs_result, wq_result, wq_done, wp_result, wp_done,
                   h_log, iter_vars>>

\* The next producer call of the handler: queue_operation, lines 376-384.
HandlerCall ==
    /\ h_pc = "call"
    /\ prod_pc = "idle"
    /\ h_todo # <<>>
    /\ LET call == Head(h_todo)
           op == [id |-> ops_created + 1, type |-> call.type, device |-> call.device,
                  alert_type |-> call.alert_type, alert_level |-> call.alert_level,
                  msg |-> Len(h_msgs)]
       IN  /\ prod_op' = op
           /\ h_log' = Append(h_log, op)
    /\ ops_created' = ops_created + 1
    /\ h_todo' = Tail(h_todo)
    /\ IF ~db_is_running
       THEN /\ prod_result' = "False"
            /\ prod_pc' = "idle"
       ELSE /\ prod_result' = "none"
            /\ prod_pc' = "put"
    /\ UNCHANGED <<recv_vars, disp_vars, message_handlers, tx_vars,
                   gs_pc, gs_stats, gs_result, wq_result, wq_done, wp_result, wp_done,
                   h_pc, h_msgs, iter_vars,
                   db_is_running, operation_queue, op_unfinished, db_stats,
                   worker_thread, w_pc, w_batch, w_op, w_old, dbctl_pc, accepted,
                   store, buffer_audit, batches>>

\* The handler returns, or raises into the except of _process_single_message.
HandlerReturn ==
    /\ h_pc = "call"
    /\ prod_pc = "idle"
    /\ h_todo = <<>>
    /\ h_pc' = "idle"
    /\ UNCHANGED <<recv_vars, disp_vars, message_handlers, db_vars, tx_vars,
                   gs_pc, gs_stats, gs_result, wq_result, wq_done, wp_result, wp_done,
                   h_todo, h_msgs, h_log, iter_vars>>

NextIntegration ==
    \/ \E msg \in Messages, raw \in RawKinds : HandleMessage(msg, raw)
    \/ HandlerCall
    \/ HandlerReturn
    \/ QueueOperationPut
    \/ DbStart(1)

SpecIntegration == InitDb /\ [][NextIntegration]_vars

\* SpecPipeline: messages the processor thread dispatches (raw_message is its
\* message_data), delivered once or twice, with the batch worker committing what
\* the handlers queued.
PipelineMessages ==
    {message("sensors", "temperature", [NoFields EXCEPT !.value = Num(37)]),
     message("status", "emergency", NoFields)}

NextPipeline ==
    \/ \E msg \in PipelineMessages : HandleMessage(msg, "message_data")
    \/ HandlerCall
    \/ HandlerReturn
    \/ QueueOperationPut
    \/ DbStart(1)
    \/ WorkerCheck(1)
    \/ WorkerGet(1)
    \/ WorkerGetTimeout(1)
    \/ WorkerCount(1)
    \/ \E old \in BOOLEAN : WorkerDecide(1, old)
    \/ WorkerProcess(1, "ok")
    \/ WorkerTaskDone(1)

SpecPipeline == InitDb /\ [][NextPipeline]_vars

(***************************************************************************)
(* SpecOrder: a started receiver with its processor thread and a started   *)
(* engine with its batch worker, neither stopped.                          *)
(***************************************************************************)
NextOrder ==
    \/ Start(1)
    \/ /\ arrived < MaxOrderMsgs
       /\ OnMessageBuffer(<<"devices", "d1", "sensors", "temp">>, TRUE)
    \/ OnMessagePut
    \/ OnMessageCount
    \/ ProcCheck(1)
    \/ ProcGet(1)
    \/ ProcTimeout(1)
    \/ ProcDispatch(1, {})
    \/ ProcDone(1)
    \/ DbStart(1)
    \/ QueueOperationCheck("insert_sensor_data")
    \/ QueueOperationPut
    \/ WorkerCheck(1)
    \/ WorkerGet(1)
    \/ WorkerGetTimeout(1)
    \/ WorkerCount(1)
    \/ \E old \in BOOLEAN : WorkerDecide(1, old)
    \/ WorkerProcess(1, "ok")
    \/ WorkerTaskDone(1)

SpecOrder == InitRecv /\ [][NextOrder]_vars

(***************************************************************************)
(* FairSpecStop: the receiver and the engine of one central system, each   *)
(* started and stopped, with the scheduler's fairness for their threads.   *)
(***************************************************************************)
\* The steps of a processor thread (reciever.py:148-175) with handlers that return.
ProcStep(t) ==
    \/ ProcCheck(t)
    \/ ProcGet(t)
    \/ ProcTimeout(t)
    \/ ProcDispatch(t, {})
    \/ ProcDone(t)

\* The steps of a batch worker (db_manager.py:172-223) with batches that are written.
WorkerStepOk(w) ==
    \/ WorkerCheck(w)
    \/ WorkerGet(w)
    \/ WorkerGetTimeout(w)
    \/ WorkerCount(w)
    \/ \E old \in BOOLEAN : WorkerDecide(w, old)
    \/ WorkerProcess(w, "ok")
    \/ WorkerTaskDone(w)
    \/ WorkerFinal(w, "ok")

\* The receiver is started once and stopped, with enough messages to fill the intake
\* queue; the engine is started and stopped again and again, with MaxStopOps
\* operations.  start() of a receiver whose thread outlived stop() is in SpecLife.
NextStop ==
    \/ /\ arrived < processing_maxsize
       /\ OnMessageBuffer(<<"devices", "d1", "sensors", "temp">>, TRUE)
    \/ OnMessagePut
    \/ OnMessageCount
    \/ ProcStep(1)
    \/ proc_pc[1] = "none" /\ Start(1)
    \/ StopFlag
    \/ StopSignal
    \/ StopJoin
    \/ ops_created < MaxStopOps /\ QueueOperationCheck("insert_sensor_data")
    \/ QueueOperationPut
    \/ WorkerStepOk(1)
    \/ DbStart(1)
    \/ DbStopFlag
    \/ DbStopJoin

SpecStop == InitRecv /\ [][NextStop]_vars

\* The scheduler runs a thread that can take a step.  Nothing is assumed of the
\* callers of start(), stop() and queue_operation, nor of the broker.
FairSpecStop ==
    /\ SpecStop
    /\ WF_vars(ProcStep(1))
    /\ WF_vars(WorkerStepOk(1))

(***************************************************************************)
(* Properties of the ingest buffer (SpecBufOps, SpecBuf).                  *)
(***************************************************************************)
\* The ids of the buffered messages, oldest first.
buffer_ids == [i \in 1..Len(message_buffer) |-> message_buffer[i].id]

\* C1: in every reachable state the number of messages held in message_buffer
\* is at most buffer_size.
C1_BufferBounded == Len(message_buffer) <= buffer_size

\* The buffer is full after an eviction, and both readers have seen it full.
C1_Witness ==
    /\ Len(message_buffer) = buffer_size
    /\ recv_stats.buffer_overflows > 0
    /\ snapshot.current_buffer_size = buffer_size
    /\ Len(recent) = buffer_size

\* C2: after N _on_message calls and no clear_buffer, the buffer holds the last
\* buffer_size messages in arrival order and buffer_overflows = N - buffer_size
\* when N > buffer_size, and all N messages with buffer_overflows = 0 otherwise.
C2_LastMessagesKept ==
    Len(recorded) = arrived =>
        IF arrived > buffer_size
        THEN /\ buffer_ids = SubSeq(recorded, arrived - buffer_size + 1, arrived)
             /\ recv_stats.buffer_overflows = arrived - buffer_size
        ELSE /\ buffer_ids = recorded
             /\ recv_stats.buffer_overflows = 0

\* C2 witness: more than buffer_size + 1 messages were recorded and none cleared.
C2_Witness ==
    /\ Len(recorded) = arrived
    /\ arrived > buffer_size + 1
    /\ recv_stats.buffer_overflows = arrived - buffer_size

\* C20: after the processor thread has routed a message whose payload is not
\* JSON (parsed_payload is None), no handler was invoked for it.
C20_NonJsonNotDispatched ==
    (proc_pc[1] = "done" /\ ~proc_msg[1].json) => invoked = <<>>

(***************************************************************************)
(* Properties of the dispatch (SpecDispatch).                              *)
(***************************************************************************)
\* A topic that _process_single_message routes: devices/<id>/<category>/<subtype>.
well_formed(topic_parts) ==
    /\ Len(topic_parts) >= 4
    /\ topic_parts[1] = "devices"
    /\ topic_parts[3] \in Categories

\* C3: a handler registered under the subtype wildcard "*/<subtype>" is invoked
\* for every well-formed message of that subtype and category, from any device
\* (so with handlers under "d1/temp", "*/temp" and "*" all three are invoked).
C3_SubtypeWildcardInvoked ==
    (last_op = "dispatch" /\ well_formed(disp_topic) /\ disp_raisers = {}) =>
        LET wild == bucket(message_handlers, disp_topic[3], "*/" \o disp_topic[4])
        IN  \A i \in 1..Len(wild) : \E j \in 1..Len(invoked) : invoked[j] = wild[i]

\* C4: when a handler raises during a dispatch, every handler registered under a
\* matching pattern is still invoked for the message.
C4_AllMatchingInvoked ==
    last_op = "dispatch" => invoked = matched_handlers(message_handlers, disp_topic)

\* C19: a message whose topic has fewer than 4 segments, or a first segment other
\* than 'devices', or a category other than sensors and status, invokes no handler.
C19_MalformedTopicNoHandler ==
    (last_op = "dispatch" /\ ~well_formed(disp_topic)) => invoked = <<>>

\* A message under another root was dispatched while a handler was registered
\* under "*" for its category, and no handler was invoked.
C19_Witness ==
    /\ last_op = "dispatch"
    /\ Len(disp_topic) >= 4
    /\ disp_topic[1] # "devices"
    /\ disp_topic[3] \in Categories
    /\ bucket(message_handlers, disp_topic[3], "*") # <<>>
    /\ invoked = <<>>

(***************************************************************************)
(* Properties of the batched persistence engine (SpecDb, FairSpecDb).      *)
(***************************************************************************)
\* The ids passed to _process_batch so far, batch after batch.
RECURSIVE batched_ids(_)
batched_ids(bs) == IF bs = <<>> THEN <<>> ELSE bs[1].ops \o batched_ids(Tail(bs))

\* No value occurs twice in a sequence.
no_duplicates(seq) == \A i, j \in 1..Len(seq) : seq[i] = seq[j] => i = j

\* The sum of f over the batches that committed.
RECURSIVE committed_sum(_, _)
committed_sum(bs, per_batch) ==
    IF bs = <<>> THEN 0
    ELSE (IF data_committed(bs[1].outcome)
          THEN (IF per_batch THEN 1 ELSE Len(bs[1].ops)) ELSE 0)
         + committed_sum(Tail(bs), per_batch)

\* C5: a put that finds the operation queue holding max_queue_size operations
\* returns False at once, adds exactly 1 to queue_overflows and leaves the queued
\* operations as they were.
C5_FullQueueRejects ==
    [][(prod_pc = "put" /\ prod_pc' = "idle"
           /\ Len(operation_queue) = max_queue_size)
       => /\ prod_result' = "False"
          /\ db_stats'.queue_overflows = db_stats.queue_overflows + 1
          /\ operation_queue' = operation_queue]_vars

\* The third enqueue was rejected by the running engine and the first two remain.
C5_Witness ==
    /\ db_is_running
    /\ prod_pc = "idle"
    /\ prod_op.id = max_queue_size + 1
    /\ prod_result = "False"
    /\ db_stats.queue_overflows = 1
    /\ ids_of(operation_queue) = [i \in 1..max_queue_size |-> i]

\* C6: the operation queue never holds more than max_queue_size operations.
C6_QueueBounded == Len(operation_queue) <= max_queue_size

\* The queue is full again while a worker holds an operation it took from it.
C6_Witness ==
    /\ Len(operation_queue) = max_queue_size
    /\ \E w \in Workers : w_batch[w] # <<>>

\* C7: a queue_operation call made while the engine is not running returns False
\* and changes neither the operation queue nor any statistic.
C7_StoppedRejects ==
    [][(prod_pc = "idle" /\ ops_created' = ops_created + 1 /\ ~db_is_running)
       => /\ prod_result' = "False"
          /\ prod_pc' = "idle"
          /\ operation_queue' = operation_queue
          /\ op_unfinished' = op_unfinished
          /\ db_stats' = db_stats]_vars

\* An operation was rejected after stop(): the engine had accepted operations, was
\* stopped, and the last call returned False without counting an overflow.
C7_Witness ==
    /\ ~db_is_running
    /\ dbctl_pc = "idle"
    /\ accepted # {}
    /\ prod_pc = "idle"
    /\ prod_result = "False"
    /\ prod_op.id \notin accepted
    /\ prod_op.id > 1
    /\ db_stats.queue_overflows = 0

\* C8: every accepted operation is eventually part of a batch passed to
\* _process_batch.
C8_AcceptedEventuallyBatched ==
    \A i \in 1..MaxOps :
        (i \in accepted) ~> (\E b \in 1..Len(batches) : \E k \in 1..Len(batches[b].ops) :
                                batches[b].ops[k] = i)

\* C9: no operation is in more than one batch passed to _process_batch, and none
\* is committed to the store twice.
C9_AtMostOneBatch ==
    /\ no_duplicates(batched_ids(batches))
    /\ no_duplicates(store)

\* Operations went through a normal flush and through the final batch of a
\* stopping worker, and the engine was started again afterwards.
C9_Witness ==
    /\ \E b \in 1..Len(batches) : ~batches[b].final /\ batches[b].ops # <<>>
    /\ \E b \in 1..Len(batches) : batches[b].final /\ batches[b].ops # <<>>
    /\ \E w \in Workers : w_pc[w] = "exited"
    /\ db_is_running

C11_TwoOperationsOneFlush ==
    (/\ ops_created = 2
     /\ accepted = {1, 2}
     /\ \A b \in 1..Len(batches) : ~batches[b].final
     /\ Len(batched_ids(batches)) = 2)
    => (Len(batches) = 1 /\ batches[1].ops = <<1, 2>>)

(***************************************************************************)
(* Properties of _process_batch (SpecBatch).                               *)
(***************************************************************************)
\* C12: after every _process_batch call, buffer_audit holds exactly one record for
\* each call made so far, with items_count the length of its batch and success
\* telling whether its operations were committed.
C12_OneAuditRecordPerCall ==
    tx_pc = "idle" =>
        /\ Len(buffer_audit) = Len(batches)
        /\ \A b \in 1..Len(batches) :
              /\ buffer_audit[b].items_count = Len(batches[b].ops)
              /\ buffer_audit[b].success = data_committed(batches[b].outcome)

\* Whether the row of the operation at position i of the batch is in its table.
applied(i) ==
    \E j \in 1..Len(tables[tx_ops[i].type]) : tables[tx_ops[i].type][j] = tx_ops[i].id

\* C14: at every moment, the tables hold the rows of all operations of the batch
\* given to _process_batch, or of none of them.
C14_AllOrNothing ==
    \/ \A i \in 1..Len(tx_ops) : applied(i)
    \/ \A i \in 1..Len(tx_ops) : ~applied(i)

\* A call with a device update and a system alert failed while the alert was
\* executed, after the device update, and left no row of either.
C14_Witness ==
    /\ tx_pc = "idle"
    /\ Len(tx_ops) = 2
    /\ tx_fail.at = "execute"
    /\ tx_ops[tx_fail.pos].type = "system_alert"
    /\ \E i \in 1..2 : tx_ops[i].type = "update_device"
    /\ batches # <<>>
    /\ batches[Len(batches)].ops = ids_of(tx_ops)
    /\ \A i \in 1..2 : ~applied(i)

\* ---------------------------------------------------------------------------
\* Properties of a failed batch (SpecDb)
\* ---------------------------------------------------------------------------

\* The operations of the batches whose transaction failed.
failed_ids(bs) ==
    batched_ids(SelectSeq(bs, LAMBDA b : ~data_committed(b.outcome)))

\* The step of a _process_batch call whose transaction fails.
FailedBatchStep ==
    /\ Len(batches') = Len(batches) + 1
    /\ ~data_committed(batches'[Len(batches')].outcome)

\* C13: a _process_batch call whose transaction fails adds exactly 1 to errors,
\* leaves operations_completed, batch_inserts and the stored rows as they were,
\* and the worker that made the call in its loop goes on with an empty batch; the
\* operations of a failed batch are in no stored row and in no other batch.
C13_FailedBatchDiscarded ==
    /\ [](/\ no_duplicates(batched_ids(batches))
          /\ \A i \in 1..Len(failed_ids(batches)) :
                \A r \in 1..Len(store) : store[r] # failed_ids(batches)[i])
    /\ [][FailedBatchStep =>
            /\ db_stats'.errors = db_stats.errors + 1
            /\ db_stats'.operations_completed = db_stats.operations_completed
            /\ db_stats'.batch_inserts = db_stats.batch_inserts
            /\ store' = store
            /\ ~batches'[Len(batches')].final =>
                  \E w \in Workers : /\ w_pc[w] = "process"
                                     /\ w_pc'[w] = "task_done"
                                     /\ w_batch'[w] = <<>>]_vars

\* A batch failed in the loop of a worker, and the same worker, still running,
\* committed a later batch.
C13_Witness ==
    /\ Len(batches) = 2
    /\ batches[1].outcome = "fail" /\ ~batches[1].final
    /\ batches[2].outcome = "ok" /\ ~batches[2].final
    /\ db_stats.errors = 1
    /\ store = batches[2].ops
    /\ \A w \in Workers : w_pc[w] # "exited"
    /\ db_is_running

\* ---------------------------------------------------------------------------
\* Properties of the intake queue (SpecBuf)
\* ---------------------------------------------------------------------------

\* C15: _on_message never waits: its put can always be taken, and a put that finds
\* the intake queue full leaves the queue as it was and goes on to the statistics;
\* the message is then in the ingest buffer (no clear_buffer having run) and every
\* returned call is counted in messages_received.
C15_FullIntakeDrops ==
    /\ [](cb_pc = "put" => ENABLED OnMessagePut)
    /\ [](cb_pc = "idle" => recv_stats.messages_received = arrived)
    /\ [][(/\ cb_pc = "put"
           /\ cb_pc' # "put"
           /\ Len(processing_queue) >= processing_maxsize) =>
            /\ processing_queue' = processing_queue
            /\ cb_pc' = "count"
            /\ Len(recorded) = arrived =>
                  message_buffer'[Len(message_buffer')] = cb_msg]_vars

\* The processor thread took nothing, the intake queue is full, and the call for
\* one more message has returned: the message is in the buffer and counted, and
\* not in the queue.
C15_Witness ==
    /\ cb_pc = "idle"
    /\ Len(processing_queue) = processing_maxsize
    /\ arrived = processing_maxsize + 1
    /\ recv_stats.messages_received = arrived
    /\ message_buffer # <<>>
    /\ message_buffer[Len(message_buffer)].id = arrived
    /\ \A i \in 1..Len(processing_queue) : processing_queue[i].id # arrived

\* ---------------------------------------------------------------------------
\* Properties of get_buffer_stats (SpecBufOps)
\* ---------------------------------------------------------------------------

\* In every state of the receiver in which clear_buffer never ran, the buffer is
\* full once a message was evicted.
overflow_means_full ==
    Len(recorded) = arrived =>
        (recv_stats.buffer_overflows > 0 => Len(message_buffer) = buffer_size)

\* C16: while clear_buffer never ran, a get_buffer_stats result with
\* buffer_overflows > 0 has current_buffer_size = buffer_capacity, as the pair
\* has in every state of the receiver.
C16_SnapshotFromOneState ==
    Len(recorded) = arrived =>
        (snapshot.buffer_overflows > 0 =>
            snapshot.current_buffer_size = snapshot.buffer_capacity)

\* ---------------------------------------------------------------------------
\* Properties of get_stats and of the wait calls (SpecDbStats, SpecWait)
\* ---------------------------------------------------------------------------

\* The fields get_stats reports, as they are in the current state of the engine.
engine_fields ==
    [operations_queued |-> db_stats.operations_queued,
     operations_completed |-> db_stats.operations_completed,
     batch_inserts |-> db_stats.batch_inserts,
     errors |-> db_stats.errors,
     queue_overflows |-> db_stats.queue_overflows,
     queue_size |-> Len(operation_queue),
     queue_capacity |-> max_queue_size,
     is_running |-> db_is_running]

\* Once a put was rejected the queue has been full, and while the worker has
\* counted no operation it has taken at most one from it.
one_state_rule(s) ==
    (s.queue_overflows > 0 /\ s.operations_queued = 0) =>
        s.queue_size >= max_queue_size - 1

\* Every state of the engine with one worker thread obeys the rule.
EngineStateRule == one_state_rule(engine_fields)

\* C17: a get_stats result has the values the fields have in one state of the
\* engine, so it obeys the rule that every state of the engine obeys.
C17_StatsFromOneState == one_state_rule(gs_result)

\* C18: a wait_for_queue_empty that returned when every queued operation was done
\* returned True, and so did a wait_for_processing that returned when every queued
\* message was processed.
C18_WaitReturnsTrueWhenDone ==
    /\ (wq_result # "none" /\ wq_done) => wq_result = "True"
    /\ (wp_result # "none" /\ wp_done) => wp_result = "True"

\* ---------------------------------------------------------------------------
\* Properties of the devices table (SpecBatch)
\* ---------------------------------------------------------------------------

\* The number of committed update_device operations for a device.
committed_updates(device_id) ==
    Len(SelectSeq(upserts, LAMBDA d : d = device_id))

\* total_messages of a device, 0 while it has no row.
total_messages(devs, device_id) ==
    IF device_id \in DOMAIN devs THEN devs[device_id].total_messages ELSE 0

\* C27: for every device, total_messages equals the number of update_device
\* operations committed for it, a device without committed operation has no row,
\* and no step lowers total_messages.
C27_TotalMessagesCountsUpserts ==
    /\ [](\A d \in DeviceIds :
            /\ total_messages(devices, d) = committed_updates(d)
            /\ d \in DOMAIN devices <=> committed_updates(d) > 0)
    /\ [][\A d \in DeviceIds :
            total_messages(devices', d) >= total_messages(devices, d)]_vars

\* Update operations of one device were committed in one batch (two at once) and
\* in a later batch, with a rolled back batch of the other device's in between or
\* not: total_messages of the device is 3.
C27_Witness ==
    /\ tx_pc = "idle"
    /\ Len(batches) = 2
    /\ committed_updates("d1") >= 3
    /\ devices["d1"].total_messages = committed_updates("d1")

\* ---------------------------------------------------------------------------
\* Properties of get_recent_messages (SpecBufOps)
\* ---------------------------------------------------------------------------

\* C24: for every count >= 0 and every buffer the receiver reaches,
\* get_recent_messages(count) returns min(count, buffer size) messages, the most
\* recently recorded ones, newest first (and none for count = 0).
C24_RecentReturnsMinCount ==
    \A count \in 0..(buffer_size + 1) :
        LET result == get_recent_messages(message_buffer, count)
            n == Len(message_buffer)
        IN  /\ Len(result) = Min(count, n)
            /\ \A i \in 1..Len(result) : result[i] = message_buffer[n - i + 1]

\* ---------------------------------------------------------------------------
\* Properties of DatabaseIntegration (SpecIntegration, SpecPipeline)
\* ---------------------------------------------------------------------------

\* The handler called for the i-th message has returned or raised.
finished(i) == i < Len(h_msgs) \/ h_pc = "idle"

\* The i-th message came through the processor thread of the receiver.
dispatched(i) == h_msgs[i].msg.raw = "message_data"

\* The system_alert operations the handler of the i-th message passed to
\* queue_operation.
alerts_of(i) ==
    SelectSeq(h_log, LAMBDA op : op.msg = i /\ op.type = "system_alert")

critical_alerts_of(i) ==
    SelectSeq(alerts_of(i), LAMBDA op : op.alert_level = "critical")

\* The operations of a type that the handler of the i-th message passed to
\* queue_operation and that were accepted.
accepted_of(i, type) ==
    SelectSeq(h_log, LAMBDA op : op.msg = i /\ op.type = type /\ op.id \in accepted)

\* The committed operations of a type: the rows of its table.
rows_of(type) ==
    SelectSeq(h_log, LAMBDA op : op.type = type
                                 /\ \E r \in 1..Len(store) : store[r] = op.id)

\* C21: for every dispatched gas reading with status "ALARM" the handler makes
\* exactly one system_alert operation, and its alert_level is "critical".
C21_GasAlarmOneCriticalAlert ==
    \A i \in 1..Len(h_msgs) :
        LET m == h_msgs[i].msg
        IN  (/\ finished(i) /\ dispatched(i) /\ m.json
             /\ m.category = "sensors" /\ m.sub_type = "gas"
             /\ m.data.status = "ALARM") =>
                /\ Len(alerts_of(i)) = 1
                /\ alerts_of(i)[1].alert_level = "critical"

\* C22: for every dispatched pulse reading with spo2 < 90 the handler makes
\* exactly one system_alert operation of alert_level "critical", whatever the
\* heart rate is.
C22_LowOxygenOneCriticalAlert ==
    \A i \in 1..Len(h_msgs) :
        LET m == h_msgs[i].msg
        IN  (/\ finished(i) /\ dispatched(i) /\ m.json
             /\ m.category = "sensors" /\ m.sub_type = "pulse"
             /\ m.data.spo2.kind = "num" /\ m.data.spo2.v < 90
             /\ m.data.heart_rate.kind # "null") =>
                Len(critical_alerts_of(i)) = 1

\* C23: when the same sensor message was dispatched twice, every operation of
\* the two handler calls was accepted and every accepted operation committed,
\* there are two sensor_data rows and two committed update_device operations.
C23_RedeliveryTwoRows ==
    (/\ Len(h_msgs) = 2 /\ h_pc = "idle"
     /\ h_msgs[1].msg = h_msgs[2].msg
     /\ h_msgs[1].msg.category = "sensors"
     /\ \A i \in 1..Len(h_log) : h_log[i].id \in accepted
     /\ \A id \in accepted : \E r \in 1..Len(store) : store[r] = id) =>
        /\ Len(rows_of("insert_sensor_data")) = 2
        /\ Len(rows_of("update_device")) = 2

\* C25: the emergency status messages of one device enqueue at most one
\* emergency_event operation.
C25_OneEmergencyEventPerDevice ==
    \A d \in DeviceIds :
        Len(SelectSeq(h_log, LAMBDA op : /\ op.type = "emergency_event"
                                         /\ op.device = d
                                         /\ op.id \in accepted)) <= 1

\* C26: once the handler of an emergency status message has returned, an accepted
\* emergency_event of the message has an accepted critical alert of type
\* 'emergency' of the same message.
C26_EmergencyEventPaired ==
    \A i \in 1..Len(h_msgs) :
        (finished(i) /\ accepted_of(i, "emergency_event") # <<>>) =>
            \E a \in 1..Len(accepted_of(i, "system_alert")) :
                /\ accepted_of(i, "system_alert")[a].alert_type = "emergency"
                /\ accepted_of(i, "system_alert")[a].alert_level = "critical"

\* ---------------------------------------------------------------------------
\* Properties of start() and stop() (SpecLife, SpecDb, FairSpecStop)
\* ---------------------------------------------------------------------------

\* C28: at most one processor thread is waiting for the next message of the
\* intake queue at any time.
C28_OneProcessorThread ==
    Cardinality({t \in Threads : proc_pc[t] = "get"}) <= 1

\* The ids a sequence of operations or ids holds.
held(seq) == {seq[i] : i \in 1..Len(seq)}

\* The step of a worker that has seen the flag cleared and leaves _db_worker.
WorkerExitStep(w) == w_pc[w] = "final" /\ w_pc'[w] = "exited"

\* C29: a worker that leaves its loop with operations in its batch passes them to
\* _process_batch as exactly one batch, the final one, before it ends, and a
\* worker that has ended holds none; every accepted operation is in the queue, in
\* the batch of a worker or in a batch that was passed to _process_batch.
C29_FinalBatchFlushed ==
    /\ [](\A id \in accepted :
            \/ id \in held(ids_of(operation_queue))
            \/ \E w \in Workers : id \in held(ids_of(w_batch[w]))
            \/ id \in held(batched_ids(batches)))
    /\ [](\A w \in Workers : w_pc[w] = "exited" => w_batch[w] = <<>>)
    /\ [][\A w \in Workers :
            (WorkerExitStep(w) /\ w_batch[w] # <<>>) =>
                /\ Len(batches') = Len(batches) + 1
                /\ batches'[Len(batches')].ops = ids_of(w_batch[w])
                /\ batches'[Len(batches')].final
                /\ SubSeq(batches', 1, Len(batches)) = batches]_vars

\* A stopped worker has ended after a final batch of two operations, fewer than
\* batch_size.
C29_Witness ==
    /\ ~db_is_running
    /\ batches # <<>>
    /\ batches[Len(batches)].final
    /\ Len(batches[Len(batches)].ops) = 2
    /\ w_pc[worker_thread] = "exited"

\* C30: once stop() has set the running flag to false, the processor thread and
\* the batch worker each end: a thread that is alive while its flag is false is
\* eventually gone, whether it waits on an empty queue or the intake queue was
\* full and took no shutdown signal.
C30_WorkersTerminate ==
    /\ (~recv_is_running /\ proc_pc[1] \notin {"none", "exited"}) ~> (proc_pc[1] = "exited")
    /\ (~db_is_running /\ w_pc[1] \notin {"none", "exited"}) ~> (w_pc[1] = "exited")

\* stop() found the intake queue full of messages and put no signal; the processor
\* thread has ended all the same, and so has the batch worker of a stopped engine
\* after its final batch.
C30_Witness ==
    /\ ctl_pc = "join"
    /\ Len(processing_queue) = processing_maxsize
    /\ \A i \in 1..Len(processing_queue) : processing_queue[i] # NoneMsg
    /\ proc_pc[1] = "exited"
    /\ ~db_is_running
    /\ w_pc[1] = "exited"
    /\ batches # <<>>
    /\ batches[Len(batches)].final

\* C36: after stop() and a successful start() the processor thread that start()
\* made stays alive for as long as is_running is true; the shutdown signal an
\* earlier stop() left in the intake queue does not end it.
C36_RestartedWorkerStaysAlive ==
    recv_is_running => proc_pc[processor_thread] # "exited"

(***************************************************************************)
(* Properties of the dispatch order and of unregister_handler              *)
(* (SpecDispatch).                                                         *)
(***************************************************************************)
\* The lists registered for the dispatched topic d/c/s, in the order exact key
\* 'd/s', catch-all '*', device wildcard 'd/*'.
buckets_in_order ==
    LET d == disp_topic[2]
        c == disp_topic[3]
        s == disp_topic[4]
        at(k) == IF k \in DOMAIN message_handlers[c] THEN message_handlers[c][k] ELSE <<>>
    IN  at(d \o "/" \o s) \o at("*") \o at(d \o "/*")

\* A step that registers one more handler changes one list, by appending to it.
AppendsToOneBucket ==
    \E c \in Categories, k \in Patterns, h \in Handlers :
        /\ k \in DOMAIN message_handlers'[c]
        /\ message_handlers'[c][k] =
               (IF k \in DOMAIN message_handlers[c] THEN message_handlers[c][k] ELSE <<>>)
               \o <<h>>
        /\ \A c2 \in Categories, k2 \in Patterns :
               (c2 # c \/ k2 # k) =>
                   /\ (k2 \in DOMAIN message_handlers'[c2]) = (k2 \in DOMAIN message_handlers[c2])
                   /\ k2 \in DOMAIN message_handlers[c2] =>
                          message_handlers'[c2][k2] = message_handlers[c2][k2]

\* C31: for one dispatched message the handlers are invoked bucket by bucket, exact
\* key 'device/subtype', then '*', then 'device/*', each bucket in the order of
\* registration: a registration appends to its bucket, and the calls of a dispatch
\* are the three buckets one after the other (up to a handler that raises).
C31_BucketOrder ==
    /\ []((last_op = "dispatch" /\ Len(disp_topic) = 4 /\ disp_topic[1] = "devices"
              /\ disp_topic[3] \in Categories) =>
            /\ Len(invoked) <= Len(buckets_in_order)
            /\ invoked = SubSeq(buckets_in_order, 1, Len(invoked))
            /\ (\A i \in 1..Len(invoked) : invoked[i] \notin disp_raisers) =>
                   invoked = buckets_in_order)
    /\ [][last_op' = "register" => AppendsToOneBucket]_vars

\* A message of d1 found a handler under each of the three keys: h3 under 'd1/temp'
\* was called first, then h2 under '*', then h1 under 'd1/*'.
C31_Witness ==
    /\ last_op = "dispatch"
    /\ disp_topic = <<"devices", "d1", "sensors", "temp">>
    /\ disp_raisers = {}
    /\ "d1/temp" \in DOMAIN message_handlers["sensors"]
    /\ "d1/*" \in DOMAIN message_handlers["sensors"]
    /\ "*" \in DOMAIN message_handlers["sensors"]
    /\ invoked = <<"h3", "h2", "h1">>
    /\ message_handlers["sensors"]["d1/*"] = <<"h1">>

(***************************************************************************)
(* Properties of the processor thread (FairSpecRaise).                     *)
(***************************************************************************)
\* A handler raised in the _process_single_message call the thread has just made.
handler_raised ==
    /\ last_op = "dispatch"
    /\ invoked # <<>>
    /\ invoked[Len(invoked)] \in disp_raisers

\* The ids of the messages waiting in the intake queue.
queued_ids == {processing_queue[i].id : i \in 1..Len(processing_queue)}

\* C32: a handler that raises while message m is dispatched does not stop the
\* processor thread: the thread goes on to count m in messages_processed and to
\* call task_done for m, and every message waiting in the queue is dispatched later.
C32_RaiseDoesNotStopWorker ==
    /\ [](\A t \in Threads : proc_pc[t] # "exited")
    /\ [][\A t \in Threads :
            (proc_pc[t] = "dispatch" /\ proc_pc'[t] # "dispatch") => proc_pc'[t] = "done"]_vars
    /\ [][\A t \in Threads :
            (proc_pc[t] = "done" /\ proc_pc'[t] # "done") =>
                /\ recv_stats'.messages_processed = recv_stats.messages_processed + 1
                /\ unfinished_tasks' = unfinished_tasks - 1
                /\ proc_pc'[t] = "check"]_vars
    /\ (proc_pc[1] = "done" /\ handler_raised) ~> (proc_pc[1] = "check")
    /\ \A i \in 1..MaxRaiseMsgs :
           (i \in queued_ids) ~> (proc_pc[1] = "done" /\ proc_msg[1].id = i)

\* A handler raised for message 2; the thread has counted the message, called
\* task_done for it and is back at the head of its loop.
C32_Witness ==
    /\ proc_pc[1] = "check"
    /\ proc_msg[1].id = 2
    /\ recv_stats.messages_processed = 2
    /\ unfinished_tasks = 0
    /\ handler_raised

\* The list registered under key k of category c in a registry (empty: no key).
registered(handlers, c, k) == IF k \in DOMAIN handlers[c] THEN handlers[c][k] ELSE <<>>

\* The list l without fn, the others in their order.
without(l, fn) == LET other(x) == x # fn IN SelectSeq(l, other)

\* C33: unregister_handler(category, pattern, fn) leaves the bucket of that pattern
\* without fn and with its other handlers in their order, unregister_handler(category,
\* pattern) leaves no handler under the pattern, and the buckets of every other
\* pattern and of the other category are unchanged; so a dispatch that starts
\* afterwards finds no removed handler in that bucket.
C33_UnregisterRemovesHandler ==
    [][last_op' = "unregister" =>
         \E c \in Categories, k \in Patterns, fn \in Handlers \cup {""} :
            /\ k \in DOMAIN message_handlers[c]
            /\ registered(message_handlers', c, k) =
                   (IF fn = "" THEN <<>> ELSE without(registered(message_handlers, c, k), fn))
            /\ \A c2 \in Categories, k2 \in Patterns :
                   (c2 # c \/ k2 # k) =>
                       registered(message_handlers', c2, k2) =
                           registered(message_handlers, c2, k2)]_vars

\* What a handler key stands for (register_handler's docstring, reciever.py:219-227):
\* its device and its subtype, "" where any will do.
key_device(k) == IF k \in {"d1/temp", "d1/*"} THEN "d1" ELSE ""
key_subtype(k) == IF k \in {"d1/temp", "*/temp"} THEN "temp" ELSE ""

\* A registration under key k is for messages of this device and subtype.
key_matches(k, device_id, sub_type) ==
    /\ key_device(k) \in {"", device_id}
    /\ key_subtype(k) \in {"", sub_type}

\* C34: a handler is invoked only for a message it matches: every handler a dispatch
\* calls is registered, in the category of the message, under a key for the device
\* and the subtype of the message; no key of another device, of another subtype or
\* of the other category brings a call.
C34_OnlyMatchingInvoked ==
    (last_op = "dispatch") =>
        \A i \in 1..Len(invoked) :
            /\ Len(disp_topic) >= 4
            /\ disp_topic[3] \in Categories
            /\ \E k \in Patterns :
                   /\ key_matches(k, disp_topic[2], disp_topic[4])
                   /\ \E j \in 1..Len(registered(message_handlers, disp_topic[3], k)) :
                          registered(message_handlers, disp_topic[3], k)[j] = invoked[i]

\* A sensor message of d2 is dispatched while h1 is registered for d1, h2 for status
\* messages and h3 for every sensor message: only h3 is called.
C34_Witness ==
    /\ last_op = "dispatch"
    /\ disp_topic = <<"devices", "d2", "sensors", "temp">>
    /\ registered(message_handlers, "sensors", "d1/temp") = <<"h1">>
    /\ registered(message_handlers, "status", "*") = <<"h2">>
    /\ registered(message_handlers, "sensors", "*") = <<"h3">>
    /\ invoked = <<"h3">>

(***************************************************************************)
(* Properties of a dispatch that runs while the registry is changed        *)
(* (SpecIter).                                                             *)
(***************************************************************************)
\* Number of calls of fn the dispatch has made.
calls_of(fn) == Cardinality({i \in 1..Len(d_calls) : d_calls[i] = fn})

\* Number of keys under which fn was registered in a set of <<key, fn>> pairs.
keys_of(pairs, fn) == Cardinality({k \in IterKeys : <<k, fn>> \in pairs})

\* C35: when register_handler or unregister_handler runs on another thread during
\* a dispatch, every handler that stays registered for the whole dispatch under a
\* key matching the message is invoked exactly once for that registration: at the
\* end of the dispatch a function has been called at least once for each key it
\* was registered under throughout, and at most once for each key it was ever
\* registered under during the dispatch.
C35_KeptHandlersInvokedOnce ==
    (d_pc = "end") =>
        \A fn \in IterHandlers :
            /\ calls_of(fn) >= keys_of(d_kept, fn)
            /\ calls_of(fn) <= keys_of(d_seen, fn)

(***************************************************************************)
(* Properties of the receiver's counters and of the processing order       *)
(* (SpecBuf, SpecOrder).                                                   *)
(***************************************************************************)
\* C37: no received message is lost from processing without being counted: whenever
\* the receiver is running, no callback is under way, the intake queue is empty and
\* the processor thread is waiting for a message, messages_processed equals
\* messages_received, or the difference is what the other counter of the
\* statistics, buffer_overflows, reports.
C37_ReceivedProcessedOrCounted ==
    (/\ recv_is_running
     /\ cb_pc = "idle"
     /\ processing_queue = <<>>
     /\ unfinished_tasks = 0
     /\ \A t \in Threads : proc_pc[t] \in {"none", "check", "get"})
    => \/ recv_stats.messages_processed = recv_stats.messages_received
       \/ recv_stats.messages_received - recv_stats.messages_processed
              = recv_stats.buffer_overflows

\* The elements of a sequence of numbers grow from each to the next.
increasing(seq) == \A i, j \in 1..Len(seq) : i < j => seq[i] < seq[j]

\* The operations of all batches, one batch after the other.
RECURSIVE flattened(_)
flattened(bs) == IF bs = <<>> THEN <<>> ELSE Head(bs).ops \o flattened(Tail(bs))

\* C38: the processor thread dispatches the messages in the order in which
\* _on_message put them into the intake queue (messages are numbered as they
\* arrive: the queue holds them in that order, the thread takes the head, and each
\* message it takes is later than the one before), and the batch worker fills its
\* batches in the order of enqueueing: every operation of an earlier batch was
\* enqueued before every operation of a later batch.
C38_ProcessedInQueueOrder ==
    /\ [](increasing([i \in 1..Len(processing_queue) |-> processing_queue[i].id]))
    /\ [][\A t \in Threads :
            proc_msg'[t] # proc_msg[t] =>
                /\ processing_queue # <<>>
                /\ proc_msg'[t] = Head(processing_queue)
                /\ processing_queue' = Tail(processing_queue)
                /\ proc_msg'[t].id > proc_msg[t].id]_vars
    /\ [](increasing(ids_of(operation_queue)))
    /\ [](\A w \in Workers : increasing(ids_of(w_batch[w])))
    /\ [](increasing(flattened(batches)))

\* Three messages have been dispatched and the worker has written two batches.
C38_Witness ==
    /\ proc_pc[1] = "check"
    /\ proc_msg[1].id = 3
    /\ recv_stats.messages_processed = 3
    /\ Len(batches) = 2
    /\ flattened(batches) = <<1, 2, 3>>

(***************************************************************************)
(* Properties of the accounting of _process_batch and of first_seen        *)
(* (SpecBatch).                                                            *)
(***************************************************************************)
\* The batches all of whose operations are in the database, and those none of whose
\* operations are.
stored_batches ==
    {i \in 1..Len(batches) : \A j \in 1..Len(batches[i].ops) :
                                \E n \in 1..Len(store) : store[n] = batches[i].ops[j]}
unstored_batches ==
    {i \in 1..Len(batches) : \A j \in 1..Len(batches[i].ops) :
                                \A n \in 1..Len(store) : store[n] # batches[i].ops[j]}

\* C39: each batch attempt is accounted for in exactly one way: between calls,
\* batch_inserts counts the batches whose data is committed, operations_completed
\* their operations, errors the batches with no data committed, and the two
\* counters together the calls made; no batch is in both, also when the audit
\* row after the data commit cannot be written.
C39_BatchAccountedOnce ==
    (tx_pc = "idle") =>
        /\ db_stats.batch_inserts + db_stats.errors = Len(batches)
        /\ db_stats.batch_inserts = Cardinality(stored_batches)
        /\ db_stats.errors = Cardinality(unstored_batches)
        /\ db_stats.operations_completed = Len(store)

\* C40: first_seen of a device is set when its row is created and no later
\* update_device operation for the device changes it: no step changes the
\* first_seen of a row that exists.
C40_FirstSeenKept ==
    [][\A d \in DeviceIds :
          d \in DOMAIN devices =>
              /\ d \in DOMAIN devices'
              /\ devices'[d].first_seen = devices[d].first_seen]_vars

====
